---- MODULE Spec2Model ----
(***************************************************************************)
(* Campaign dispatch and delivery reconciliation of the WhatsApp broadcast *)
(* platform: CampaignService (launch, direct send, cancel), the campaign   *)
(* scheduler, the PUT /api/campaigns/:id edit route and the two status     *)
(* webhook handlers (routes/chatbot.js and routes/webhooks.js).            *)
(*                                                                         *)
(* Every `await` of the JavaScript code is a point where another request   *)
(* may run, so each handler is a small process whose steps are the pieces  *)
(* of code between two awaits that touch the database.                     *)
(***************************************************************************)
EXTENDS Integers, Sequences, FiniteSets, TLC

\* ------------------------------------------------------------------ bounds
MaxMessages == 6
MaxCallbacks == 3
MaxOrderLen == 3

\* CAMPAIGN_BATCH_SIZE as configured here (the code defaults to 100): the
\* three contacts are cut into a batch of two and a batch of one
BatchSize == 2

Contacts == {1, 2, 3}
Launchers == {"L1", "L2"}
Handlers == {"H1", "H2"}

\* ------------------------------------------------------------- vocabulary
CampaignStatuses == {"DRAFT", "SCHEDULED", "RUNNING", "COMPLETED", "PAUSED"}
MessageStatuses == {"PENDING", "QUEUED", "SENT", "DELIVERED", "READ", "FAILED"}
Routes == {"chatbot", "webhooks"}
NoExternalId == 0
\* trackingId: null
NoToken == 0
\* clickedAt: null
NoTimestamp == 0
\* The buttons of a template message: index 0, 1 or 2
ButtonIndexes == {0, 1}
ClickHandlers == {"K1", "K2"}

\* statusMap of handleStatusUpdate: the gateway's word -> the stored status
statusMap ==
  [w \in {"sent", "delivered", "read", "failed"} |->
     CASE w = "sent" -> "SENT"
       [] w = "delivered" -> "DELIVERED"
       [] w = "read" -> "READ"
       [] w = "failed" -> "FAILED"]

WaStatuses == DOMAIN statusMap

\* statusOrder of routes/chatbot.js
statusOrder ==
  [s \in MessageStatuses |->
     CASE s = "PENDING" -> 0
       [] s = "QUEUED" -> 1
       [] s = "SENT" -> 2
       [] s = "DELIVERED" -> 3
       [] s = "READ" -> 4
       [] s = "FAILED" -> 5]

\* The statuses counted as processed by the completion check
ProcessedStatuses == {"SENT", "DELIVERED", "READ", "FAILED"}

\* The segment store and what evaluateContacts returns for each segment's
\* criteria over the contact base: "segAll" matches every contact, "segEmpty"
\* matches none, and "segGone" is an id with no segment row.
SegmentIds == {"segAll", "segEmpty", "segGone"}
SegmentExists(s) == s \in {"segAll", "segEmpty"}
evaluateContacts(s) == IF s = "segAll" THEN Contacts ELSE {}

RECURSIVE SetToSeq(_)
SetToSeq(S) ==
  IF S = {} THEN <<>>
  ELSE LET m == CHOOSE x \in S : \A y \in S : x <= y
       IN <<m>> \o SetToSeq(S \ {m})

\* --------------------------------------- segmentEvaluator (criteria compiler)
\* Bounds of the criteria trees handed to the compiler
MaxRules == 2

ALLOWED_FIELDS ==
  {"category", "city", "country", "ageRange", "gender", "language",
   "accountType", "engagementScore", "status", "tags", "optedIn",
   "registrationDate", "lastActivity", "lastCampaignInteraction", "createdAt"}

\* The ops of the switch of buildRuleCondition
SupportedOps ==
  {"eq", "neq", "gt", "gte", "lt", "lte", "in", "nin", "contains", "has",
   "isNull", "isNotNull"}

\* A rule's value: a scalar (a text, a number or a boolean) or an array of
\* scalars; the items are kept per type.
Text(v) == [isArray |-> FALSE, text |-> <<v>>, number |-> <<>>, bool |-> <<>>]
Number(v) == [isArray |-> FALSE, text |-> <<>>, number |-> <<v>>, bool |-> <<>>]
Bool(v) == [isArray |-> FALSE, text |-> <<>>, number |-> <<>>, bool |-> <<v>>]
ItemsOf(value) == value.text \o value.number \o value.bool

\* Array.isArray(value) ? value : [value]
AsArray(value) == [value EXCEPT !.isArray = TRUE]

\* The tag of the static segment "vip": 'seg_' + segment.name
SegTag == "seg_vip"

\* The rules the requests of the model are built from: well-typed rules on
\* allowed fields, a rule on a field that is not allowed and a rule with an
\* op the switch does not know.
ValidRules ==
  {[field |-> "city", op |-> "eq", value |-> Text("Libreville")],
   [field |-> "engagementScore", op |-> "gte", value |-> Number(50)],
   [field |-> "city", op |-> "in", value |-> Text("Oyem")],
   [field |-> "tags", op |-> "has", value |-> Text(SegTag)]}

BadFieldRule == [field |-> "password", op |-> "eq", value |-> Text("x")]
BadOpRule == [field |-> "city", op |-> "regex", value |-> Text("x")]
RuleInputs == ValidRules \cup {BadFieldRule, BadOpRule}

\* A where object of the query builder: {} | {field: filter} | {AND: [...]} |
\* {OR: [...]}; a throw of the compiler is carried as a value.
MatchAll == [kind |-> "all"]
Cond(field, filter, value) ==
  [kind |-> "cond", field |-> field, filter |-> filter, value |-> value]
AllOf(conditions) == [kind |-> "AND", conditions |-> conditions]
AnyOf(conditions) == [kind |-> "OR", conditions |-> conditions]
Throw(error) == [kind |-> "throw", error |-> error]
NullValue == [isArray |-> FALSE, text |-> <<>>, number |-> <<>>, bool |-> <<>>]

\* Mutant of buildRuleCondition: the ALLOWED_FIELDS test is missing.
buildRuleConditionAnyField(rule) ==
  CASE rule.op = "eq" -> Cond(rule.field, "equals", rule.value)
    [] rule.op = "neq" -> Cond(rule.field, "not", rule.value)
    [] rule.op = "gt" -> Cond(rule.field, "gt", rule.value)
    [] rule.op = "gte" -> Cond(rule.field, "gte", rule.value)
    [] rule.op = "lt" -> Cond(rule.field, "lt", rule.value)
    [] rule.op = "lte" -> Cond(rule.field, "lte", rule.value)
    [] rule.op = "in" -> Cond(rule.field, "in", AsArray(rule.value))
    [] rule.op = "nin" -> Cond(rule.field, "notIn", AsArray(rule.value))
    [] rule.op = "contains" -> Cond(rule.field, "contains", rule.value)
    [] rule.op = "has" -> Cond(rule.field, "has", rule.value)
    [] rule.op = "isNull" -> Cond(rule.field, "equals", NullValue)
    [] rule.op = "isNotNull" -> Cond(rule.field, "not", NullValue)
    [] OTHER -> Throw("Operateur non supporte")

buildRuleCondition(rule) ==
  IF rule.field \notin ALLOWED_FIELDS
    THEN Throw("Champ non autorise")
    ELSE CASE rule.op = "eq" -> Cond(rule.field, "equals", rule.value)
           [] rule.op = "neq" -> Cond(rule.field, "not", rule.value)
           [] rule.op = "gt" -> Cond(rule.field, "gt", rule.value)
           [] rule.op = "gte" -> Cond(rule.field, "gte", rule.value)
           [] rule.op = "lt" -> Cond(rule.field, "lt", rule.value)
           [] rule.op = "lte" -> Cond(rule.field, "lte", rule.value)
           [] rule.op = "in" -> Cond(rule.field, "in", AsArray(rule.value))
           [] rule.op = "nin" -> Cond(rule.field, "notIn", AsArray(rule.value))
           [] rule.op = "contains" -> Cond(rule.field, "contains", rule.value)
           [] rule.op = "has" -> Cond(rule.field, "has", rule.value)
           [] rule.op = "isNull" -> Cond(rule.field, "equals", NullValue)
           [] rule.op = "isNotNull" -> Cond(rule.field, "not", NullValue)
           [] OTHER -> Throw("Operateur non supporte")

\* A criteria tree as it arrives: null, or an object whose `operator`,
\* `rules` and `groups` may each be absent.
NullCriteria == [form |-> "null"]
Tree(operator, rules, groups) ==
  [form |-> "tree", operator |-> operator, rules |-> rules, groups |-> groups,
   absent |-> {}]
TreeWithout(absent) ==
  [form |-> "tree", operator |-> "AND", rules |-> <<>>, groups |-> <<>>,
   absent |-> absent]

\* (criteria.operator || 'AND').toUpperCase()
toUpperCase(operator) ==
  CASE operator = "or" -> "OR"
    [] operator = "and" -> "AND"
    [] OTHER -> operator

\* Mutant of OperatorOf: every node combines with AND.
OperatorOfAlwaysAnd(criteria) == "AND"

OperatorOf(criteria) ==
  toUpperCase(IF "operator" \in criteria.absent THEN "AND" ELSE criteria.operator)

Min(S) == CHOOSE x \in S : \A y \in S : x <= y

RECURSIVE buildWhereClause(_)
buildWhereClause(criteria) ==
  IF criteria.form = "null" \/ {"rules", "groups"} \subseteq criteria.absent
    THEN MatchAll
    ELSE LET conditions ==
               [i \in DOMAIN criteria.rules |->
                  buildRuleCondition(criteria.rules[i])]
               \o [i \in DOMAIN criteria.groups |->
                     buildWhereClause(criteria.groups[i])]
             thrown == {i \in DOMAIN conditions : conditions[i].kind = "throw"}
         IN IF thrown # {} THEN conditions[Min(thrown)]
            ELSE IF Len(conditions) = 0 THEN MatchAll
            ELSE IF Len(conditions) = 1 THEN conditions[1]
            ELSE IF OperatorOf(criteria) = "OR"
              THEN AnyOf(conditions)
              ELSE AllOf(conditions)

\* The query builder's filters on one contact (no contact of the model has
\* a null attribute; `contains` is not used by the rules of the model; an
\* attribute the contact rows do not have matches nothing)
FilterHolds(c, cond) ==
  LET items == ItemsOf(cond.value)
      Items == {items[i] : i \in DOMAIN items}
  IN IF cond.field \notin DOMAIN c THEN FALSE
     ELSE CASE cond.filter = "equals" -> items # <<>> /\ c[cond.field] = items[1]
            [] cond.filter = "not" -> items = <<>> \/ c[cond.field] # items[1]
            [] cond.filter = "gt" -> c[cond.field] > items[1]
            [] cond.filter = "gte" -> c[cond.field] >= items[1]
            [] cond.filter = "lt" -> c[cond.field] < items[1]
            [] cond.filter = "lte" -> c[cond.field] <= items[1]
            [] cond.filter = "in" -> c[cond.field] \in Items
            [] cond.filter = "notIn" -> c[cond.field] \notin Items
            [] cond.filter = "has" -> items[1] \in c[cond.field]
            [] OTHER -> FALSE

RECURSIVE WhereHolds(_, _)
WhereHolds(c, where) ==
  CASE where.kind = "all" -> TRUE
    [] where.kind = "cond" -> FilterHolds(c, where)
    [] where.kind = "AND" ->
         \A i \in DOMAIN where.conditions : WhereHolds(c, where.conditions[i])
    [] where.kind = "OR" ->
         \E i \in DOMAIN where.conditions : WhereHolds(c, where.conditions[i])

\* Mutant of evaluateWhere: the criteria alone, without the ACTIVE and
\* optedIn base.
evaluateWhereCriteriaOnly(criteriaWhere) == criteriaWhere

\* Mutant of evaluateWhere: the base condition put among the conditions of
\* the compiled tree's own root instead of around it.
evaluateWhereBaseInsideTree(criteriaWhere) ==
  LET base == AllOf(<<Cond("status", "equals", Text("ACTIVE")),
                      Cond("optedIn", "equals", Bool(TRUE))>>)
  IN IF criteriaWhere.kind = "OR"
       THEN AnyOf(<<base>> \o criteriaWhere.conditions)
       ELSE AllOf(<<base, criteriaWhere>>)

\* {AND: [{status: 'ACTIVE', optedIn: true}, criteriaWhere]}
evaluateWhere(criteriaWhere) ==
  AllOf(<<Cond("status", "equals", Text("ACTIVE")),
          Cond("optedIn", "equals", Bool(TRUE)),
          criteriaWhere>>)

\* prisma.contact.findMany({where}) over a contact table: the matching ids
findMany(store, where) == {id \in DOMAIN store : WhereHolds(store[id], where)}

\* The contact table: the three contacts every launch of the model
\* resolves (ACTIVE, opted in), a BLOCKED one and one that opted out.
Contact(city, engagementScore, status, optedIn) ==
  [city |-> city, engagementScore |-> engagementScore, status |-> status,
   optedIn |-> optedIn, tags |-> {}, category |-> "ACTIVE"]

SeedContacts ==
  <<Contact("Libreville", 60, "ACTIVE", TRUE),
    [Contact("Libreville", 10, "ACTIVE", TRUE) EXCEPT !.category = "COTISANT"],
    Contact("Oyem", 80, "ACTIVE", TRUE),
    Contact("Libreville", 80, "BLOCKED", TRUE),
    Contact("Oyem", 60, "ACTIVE", FALSE)>>

\* The same people, the first and the last carrying the segment's tag, the
\* second BLOCKED and the third opted out
TaggedContacts ==
  <<[Contact("Libreville", 60, "ACTIVE", TRUE) EXCEPT !.tags = {SegTag}],
    Contact("Libreville", 10, "BLOCKED", TRUE),
    Contact("Oyem", 80, "ACTIVE", FALSE),
    [Contact("Libreville", 80, "ACTIVE", TRUE) EXCEPT !.category = "COTISANT"],
    [Contact("Oyem", 60, "ACTIVE", TRUE) EXCEPT !.tags = {SegTag, "seg_other"}]>>

StoreInputs == {SeedContacts, TaggedContacts}

\* The criteria trees of the requests: every node of at most MaxRules rules
\* without groups, the empty forms, nodes holding one nested group down to
\* three levels, and nodes made of two groups only.
Operators == {"AND", "OR"}
RuleSeqs(n) == UNION {[1..k -> RuleInputs] : k \in 0..n}
Leaves == {Tree(o, rs, <<>>) : o \in Operators, rs \in RuleSeqs(MaxRules)}
ShortLeaves == {Tree(o, rs, <<>>) : o \in Operators, rs \in RuleSeqs(1)}
Nested(S) == {Tree(o, rs, <<g>>) : o \in Operators, rs \in RuleSeqs(1), g \in S}
GroupPairs ==
  {Tree(o, <<>>, <<g, h>>) : o \in Operators, g \in ShortLeaves, h \in ShortLeaves}
EmptyForms ==
  {NullCriteria, TreeWithout({"rules", "groups"}), TreeWithout({"groups"}),
   TreeWithout({"rules"}), TreeWithout({"operator"}), Tree("AND", <<>>, <<>>),
   Tree("OR", <<>>, <<>>)}
OddOperatorLeaves ==
  {[Tree(o, rs, <<>>) EXCEPT !.absent = a] :
     o \in {"or", "and"}, rs \in [1..2 -> ValidRules], a \in {{}, {"operator"}}}
CriteriaInputs ==
  EmptyForms \cup Leaves \cup OddOperatorLeaves \cup Nested(Leaves)
    \cup Nested(Nested(ShortLeaves)) \cup GroupPairs

\* The segment table.  "segAll" keeps the empty tree, "segEmpty" a rule no
\* contact satisfies, and "segGone" has no row.
Segment(name, type, criteria, contactCount) ==
  [exists |-> TRUE, name |-> name, type |-> type, criteria |-> criteria,
   contactCount |-> contactCount]
NoSegment ==
  [exists |-> FALSE, name |-> "", type |-> "DYNAMIC", criteria |-> NullCriteria,
   contactCount |-> 0]

NowhereRule == [field |-> "city", op |-> "eq", value |-> Text("Nowhere")]

SeedSegments ==
  [s \in SegmentIds |->
     CASE s = "segAll" -> Segment("vip", "DYNAMIC", Tree("AND", <<>>, <<>>), 3)
       [] s = "segEmpty" ->
            Segment("nobody", "DYNAMIC", Tree("AND", <<NowhereRule>>, <<>>), 0)
       [] OTHER -> NoSegment]

\* What a request was answered with: HTTP status (0: a service call, not a
\* route), whether it threw, the count and the contacts it returned.
Response(op, status, error, count, contacts) ==
  [op |-> op, status |-> status, error |-> error, count |-> count,
   contacts |-> contacts]
NoResponse == Response("none", 0, "none", 0, {})

VARIABLES
  campaign,    \* the campaign row: status, counters, segmentId
  messages,    \* the message rows of the campaign, in insertion order
  nextExt,     \* the next message id the gateway hands out
  lpc,         \* launchers: position in launchCampaign / processDirectSend
  lcontacts,   \* launchers: the resolved contacts of the run
  lidx,        \* launchers: index of the next contact to send
  lstats,      \* launchers: msgStats as read by groupBy (#SENT, #FAILED)
  ltotal,      \* launchers: `total` read by the completion check
  lres,        \* launchers: what the last launchCampaign call returned
  apc,         \* the cancel / edit request in flight
  abody,       \* the body of the edit request in flight
  hpc,         \* callback handlers: position in handleStatusUpdate
  hroute,      \* callback handlers: which router's handler runs
  hrow,        \* callback handlers: dbMessage (row index)
  hcur,        \* callback handlers: dbMessage.status as read
  hst,         \* callback handlers: dbStatus
  ncb,         \* number of callbacks accepted so far
  entered,     \* history: per row and status, how often a callback moved the row into it
  credited,    \* history: per row and status, how often a callback incremented the counter
  oseq,        \* order check: the callbacks delivered to one message
  opos,        \* order check: how many were handled
  ostatus,     \* order check: the message's status
  nextToken,   \* the next tracking token the message table hands out
  deleted,     \* the campaign row and its messages were deleted
  dpc,         \* the delete request in flight
  jobs,        \* queue mode: the 'send-messages' jobs of the campaign
  kpc,         \* click handlers: position in GET /t/:trackingId/:buttonIndex
  ktok,        \* click handlers: trackingId of the request
  krow,        \* click handlers: message (row index) as found
  kbtn,        \* click handlers: buttonIndex
  kmsg,        \* click handlers: the message row as read by findFirst
  kres,        \* click handlers: the response of the last request
  now,         \* click handlers: the clock read by new Date()
  contactStore, \* the contact table: id -> attributes
  segments,    \* the segment table: id -> row, or NoSegment
  sreq,        \* segment routes: the criteria of the request body
  sres,        \* segment routes: the response of the last request
  spc,         \* segment delete: "idle", or the id whose checks have passed
  queries,     \* history: contact queries issued so far
  wevents,     \* webhook: the status events of the payload being processed
  wpos,        \* webhook: how many of them were handled
  wack,        \* webhook: the HTTP status answered to the gateway (0: none yet)
  campaigns,   \* scheduler: the campaigns table (status, scheduledAt, recipients)
  scheduledCampaigns, \* scheduler: the campaigns the tick's findMany returned
  tpos         \* scheduler: the place of the tick in that list (0: no tick)

lvars == <<lpc, lcontacts, lidx, lstats, ltotal, lres>>
avars == <<apc, abody>>
hvars == <<hpc, hroute, hrow, hcur, hst, ncb, entered, credited>>
ovars == <<oseq, opos, ostatus>>
dvars == <<deleted, dpc>>
kvars == <<kpc, ktok, krow, kbtn, kmsg, kres, now>>
svars == <<contactStore, segments, sreq, sres, spc, queries>>
wvars == <<wevents, wpos, wack>>
tvars == <<campaigns, scheduledCampaigns, tpos>>
xvars == <<nextToken, dvars, jobs, kvars, svars, wvars, tvars>>
vars == <<campaign, messages, nextExt, lvars, avars, hvars, ovars, xvars>>

Rows == DOMAIN messages
NoCredit == [s \in DOMAIN statusOrder |-> 0]
NoStats == [sent |-> 0, failed |-> 0]
\* `message` of a click handler that has read nothing
NoMessage == [clickedButtons |-> <<>>, clickedAt |-> NoTimestamp]

\* ------------------------------------------------------------------- Init
\* createCampaign: SCHEDULED when scheduledAt is given, DRAFT otherwise;
\* counters start at 0 (schema defaults); no message exists yet.
NoLegacySegment == "none"

createCampaign(scheduled, segmentId) ==
  [status |-> IF scheduled THEN "SCHEDULED" ELSE "DRAFT",
   sent |-> 0, delivered |-> 0, read |-> 0, failed |-> 0, clicked |-> 0,
   segmentId |-> segmentId, inlineCriteria |-> NullCriteria,
   legacySegment |-> NoLegacySegment]

\* Nothing has been launched, cancelled, edited, clicked or asked yet
NothingDone ==
  /\ messages = <<>>
  /\ nextExt = 1
  /\ lpc = [p \in Launchers |-> "idle"]
  /\ lcontacts = [p \in Launchers |-> <<>>]
  /\ lidx = [p \in Launchers |-> 0]
  /\ lstats = [p \in Launchers |-> NoStats]
  /\ ltotal = [p \in Launchers |-> 0]
  /\ lres = [p \in Launchers |-> "none"]
  /\ apc = "idle"
  /\ abody = "none"
  /\ hpc = [h \in Handlers |-> "idle"]
  /\ hroute = [h \in Handlers |-> "chatbot"]
  /\ hrow = [h \in Handlers |-> 0]
  /\ hcur = [h \in Handlers |-> "PENDING"]
  /\ hst = [h \in Handlers |-> "PENDING"]
  /\ ncb = 0
  /\ entered = <<>>
  /\ credited = <<>>
  /\ nextToken = 1
  /\ deleted = FALSE
  /\ dpc = "idle"
  /\ jobs = <<>>
  /\ kpc = [k \in ClickHandlers |-> "idle"]
  /\ ktok = [k \in ClickHandlers |-> NoToken]
  /\ krow = [k \in ClickHandlers |-> 0]
  /\ kbtn = [k \in ClickHandlers |-> 0]
  /\ kmsg = [k \in ClickHandlers |-> NoMessage]
  /\ kres = [k \in ClickHandlers |-> "none"]
  /\ now = 1
  /\ segments = SeedSegments
  /\ sres = NoResponse
  /\ spc = "idle"
  /\ queries = 0
  /\ wevents = <<>>
  /\ wpos = 0
  /\ wack = 0
  /\ campaigns = <<>>
  /\ scheduledCampaigns = <<>>
  /\ tpos = 0

MainInit ==
  /\ \E scheduled \in BOOLEAN, s \in SegmentIds :
       campaign = createCampaign(scheduled, s)
  /\ contactStore = SeedContacts
  /\ NothingDone

Init ==
  /\ MainInit
  /\ sreq = NullCriteria
  /\ oseq = <<>>
  /\ opos = 0
  /\ ostatus = "SENT"

\* ------------------------------------------------- launchCampaign (service)
\* Mutant of LaunchRejected: the RUNNING guard is missing.
LaunchRejectedNever(status) == FALSE

\* if (campaign.status === 'RUNNING') throw 'La campagne est déjà en cours'
LaunchRejected(status) == status = "RUNNING"

\* Mutant of NoRecipients: the empty-target guard is missing.
NoRecipientsNever(contacts) == FALSE

\* if (contacts.length === 0) throw 'Aucun contact trouvé pour ce segment'
NoRecipients(contacts) == Len(contacts) = 0

\* The scheduler's findMany({status: 'SCHEDULED', scheduledAt <= now}) found
\* the campaign; launchCampaign(campaign.id) is awaited next.
SchedulerTick(p) ==
  /\ lpc[p] = "idle"
  /\ campaign.status = "SCHEDULED"
  /\ Len(messages) + Cardinality(Contacts) <= MaxMessages
  /\ lpc' = [lpc EXCEPT ![p] = "sched"]
  /\ UNCHANGED <<campaign, messages, nextExt, lcontacts, lidx, lstats, ltotal, lres,
                 avars, hvars, ovars, xvars>>

\* launchCampaign up to createMany: findUnique, the RUNNING guard,
\* resolveTargetContacts (segment lookup + evaluateContacts) and the
\* empty-target guard.  None of these reads writes anything, and the segment
\* and contact stores do not change here, so they are one step.  A manual
\* launch (POST /:id/send) starts from "idle", the scheduler's from "sched".
LaunchRead(p) ==
  /\ lpc[p] \in {"idle", "sched"}
  /\ IF LaunchRejected(campaign.status)
       THEN /\ lres' = [lres EXCEPT ![p] = "already_running"]
            /\ lpc' = [lpc EXCEPT ![p] = "idle"]
            /\ UNCHANGED lcontacts
     ELSE IF ~SegmentExists(campaign.segmentId)
       THEN /\ lres' = [lres EXCEPT ![p] = "segment_not_found"]
            /\ lpc' = [lpc EXCEPT ![p] = "idle"]
            /\ UNCHANGED lcontacts
     ELSE LET contacts == SetToSeq(evaluateContacts(campaign.segmentId)) IN
          IF NoRecipients(contacts)
            THEN /\ lres' = [lres EXCEPT ![p] = "no_contacts"]
                 /\ lpc' = [lpc EXCEPT ![p] = "idle"]
                 /\ UNCHANGED lcontacts
            ELSE /\ Len(messages) + Len(contacts) <= MaxMessages
                 /\ lres' = [lres EXCEPT ![p] = "none"]
                 /\ lpc' = [lpc EXCEPT ![p] = "create"]
                 /\ lcontacts' = [lcontacts EXCEPT ![p] = contacts]
  /\ UNCHANGED <<campaign, messages, nextExt, lidx, lstats, ltotal, avars, hvars, ovars, xvars>>

\* The tracking token of a new message row.  launchCampaign passes none to
\* createMany; the column is declared by the Prisma schema, which is not part
\* of the sources (server.js only adds the column as TEXT with a unique index
\* when it is missing).  The token is the one the specification describes:
\* generated per row, never handed out twice.

\* Mutant of FreshToken: every row gets the same token.
FreshTokenRepeated(k) == 1

FreshToken(k) == k

\* prisma.message.createMany: one PENDING row per resolved contact
\* The row's columns left to their defaults: externalId, error and clickedAt
\* are null, clickedButtons is empty, and trackingId is the token the message
\* table generates for the new row (FreshToken).
RowsFor(contacts, firstToken) ==
  [i \in 1..Len(contacts) |->
     [contactId |-> contacts[i], status |-> "PENDING", externalId |-> NoExternalId,
      error |-> "none", trackingId |-> FreshToken(firstToken + i - 1),
      clickedButtons |-> <<>>, clickedAt |-> NoTimestamp]]

\* Mutant of NewRows: the last resolved contact gets no row.
NewRowsWithoutLast(contacts) ==
  RowsFor(SubSeq(contacts, 1, Len(contacts) - 1), nextToken)

NewRows(contacts) == RowsFor(contacts, nextToken)

CreateMessages(p) ==
  /\ lpc[p] = "create"
  /\ Len(messages) + Len(lcontacts[p]) <= MaxMessages
  /\ messages' = messages \o NewRows(lcontacts[p])
  /\ entered' = entered \o [i \in 1..Len(lcontacts[p]) |-> NoCredit]
  /\ credited' = credited \o [i \in 1..Len(lcontacts[p]) |-> NoCredit]
  /\ nextToken' = nextToken + Len(lcontacts[p])
  /\ lpc' = [lpc EXCEPT ![p] = "setRunning"]
  /\ UNCHANGED <<campaign, nextExt, lcontacts, lidx, lstats, ltotal, lres, avars,
                 hpc, hroute, hrow, hcur, hst, ncb, ovars, dvars, svars, jobs, kvars,
                 wvars, tvars>>

\* prisma.campaign.update({status: 'RUNNING'}); the batches are cut and
\* processDirectSend is started without being awaited; launchCampaign returns.
SetRunning(p) ==
  /\ lpc[p] = "setRunning"
  /\ campaign' = [campaign EXCEPT !.status = "RUNNING"]
  /\ lpc' = [lpc EXCEPT ![p] = "send"]
  /\ lidx' = [lidx EXCEPT ![p] = 1]
  /\ lres' = [lres EXCEPT ![p] = "ok"]
  /\ UNCHANGED <<messages, nextExt, lcontacts, lstats, ltotal, avars, hvars, ovars, xvars>>

\* ------------------------------------------------ processDirectSend (service)
\* One iteration of `for (const contact of batch)`: sendTemplate answers with
\* success and a fresh message id or with an error, then
\* message.updateMany({where: {campaignId, contactId}}) writes the outcome on
\* every row of that contact.
SendOutcomeAllRows(row, contactId, success, messageId) ==
  [row EXCEPT !.status = IF success THEN "SENT" ELSE "FAILED",
              !.externalId = IF success THEN messageId ELSE NoExternalId,
              !.error = IF success THEN "none" ELSE "gateway"]

SendOutcome(row, contactId, success, messageId) ==
  IF row.contactId = contactId
    THEN [row EXCEPT !.status = IF success THEN "SENT" ELSE "FAILED",
                     !.externalId = IF success THEN messageId ELSE NoExternalId,
                     !.error = IF success THEN "none" ELSE "gateway"]
    ELSE row

LastOfBatch(i, n) == i % BatchSize = 0 \/ i = n

SendOne(p) ==
  /\ lpc[p] = "send"
  /\ \E success \in BOOLEAN :
       /\ messages' = [r \in Rows |->
            SendOutcome(messages[r], lcontacts[p][lidx[p]], success, nextExt)]
       /\ nextExt' = IF success THEN nextExt + 1 ELSE nextExt
  /\ IF LastOfBatch(lidx[p], Len(lcontacts[p]))
       THEN /\ lpc' = [lpc EXCEPT ![p] = "stats"]
            /\ UNCHANGED lidx
       ELSE /\ lidx' = [lidx EXCEPT ![p] = lidx[p] + 1]
            /\ UNCHANGED lpc
  /\ UNCHANGED <<campaign, lcontacts, lstats, ltotal, lres, avars, hvars, ovars, xvars>>

CountStatus(S) == Cardinality({r \in Rows : messages[r].status \in S})

\* After each batch: msgStats = await prisma.message.groupBy({by: ['status']})
GroupByStatus == [sent |-> CountStatus({"SENT"}), failed |-> CountStatus({"FAILED"})]

StatsRead(p) ==
  /\ lpc[p] = "stats"
  /\ lstats' = [lstats EXCEPT ![p] = GroupByStatus]
  /\ lpc' = [lpc EXCEPT ![p] = "statsWrite"]
  /\ UNCHANGED <<campaign, messages, nextExt, lcontacts, lidx, ltotal, lres,
                 avars, hvars, ovars, xvars>>

\* prisma.campaign.update({data: {sent: sent + failed, delivered, failed}})
\* with delivered = sent: the counters are replaced by the regrouped numbers.
AggregateStats(c, stats) ==
  [c EXCEPT !.sent = stats.sent + stats.failed,
            !.delivered = stats.sent,
            !.failed = stats.failed]

StatsWrite(p) ==
  /\ lpc[p] = "statsWrite"
  /\ campaign' = AggregateStats(campaign, lstats[p])
  /\ lstats' = [lstats EXCEPT ![p] = NoStats]
  /\ IF lidx[p] = Len(lcontacts[p])
       THEN /\ lpc' = [lpc EXCEPT ![p] = "countTotal"]
            /\ UNCHANGED lidx
       ELSE /\ lpc' = [lpc EXCEPT ![p] = "send"]
            /\ lidx' = [lidx EXCEPT ![p] = lidx[p] + 1]
  /\ UNCHANGED <<messages, nextExt, lcontacts, ltotal, lres, avars, hvars, ovars, xvars>>

\* const total = await prisma.message.count({campaignId})
CountTotal(p) ==
  /\ lpc[p] = "countTotal"
  /\ ltotal' = [ltotal EXCEPT ![p] = Len(messages)]
  /\ lpc' = [lpc EXCEPT ![p] = "countProcessed"]
  /\ UNCHANGED <<campaign, messages, nextExt, lcontacts, lidx, lstats, lres, avars,
                 hvars, ovars, xvars>>

\* const processed = await prisma.message.count({status in SENT..FAILED});
\* if (processed >= total) the campaign is about to be marked COMPLETED.
AllProcessed(processed, total) == processed >= total

CountProcessed(p) ==
  /\ lpc[p] = "countProcessed"
  /\ lpc' = [lpc EXCEPT ![p] =
       IF AllProcessed(CountStatus(ProcessedStatuses), ltotal[p])
         THEN "complete" ELSE "idle"]
  /\ ltotal' = [ltotal EXCEPT ![p] = 0]
  /\ lidx' = [lidx EXCEPT ![p] = 0]
  /\ lcontacts' = [lcontacts EXCEPT ![p] = <<>>]
  /\ UNCHANGED <<campaign, messages, nextExt, lstats, lres, avars, hvars, ovars, xvars>>

\* prisma.campaign.update({status: 'COMPLETED'})
SetCompleted(p) ==
  /\ lpc[p] = "complete"
  /\ campaign' = [campaign EXCEPT !.status = "COMPLETED"]
  /\ lpc' = [lpc EXCEPT ![p] = "idle"]
  /\ UNCHANGED <<messages, nextExt, lcontacts, lidx, lstats, ltotal, lres, avars,
                 hvars, ovars, xvars>>

\* --------------------------------------------------- cancelCampaign (service)
\* Mutant of CancelRejected: the COMPLETED guard is missing.
CancelRejectedNever(status) == FALSE

\* if (campaign.status === 'COMPLETED') throw
CancelRejected(status) == status = "COMPLETED"

CancelRead ==
  /\ apc = "idle"
  /\ IF CancelRejected(campaign.status)
       THEN UNCHANGED apc
       ELSE apc' = "cancelWrite"
  /\ UNCHANGED <<campaign, messages, nextExt, lvars, abody, hvars, ovars, xvars>>

\* prisma.campaign.update({status: 'PAUSED'})
CancelWrite ==
  /\ apc = "cancelWrite"
  /\ campaign' = [campaign EXCEPT !.status = "PAUSED"]
  /\ apc' = "idle"
  /\ UNCHANGED <<messages, nextExt, lvars, abody, hvars, ovars, xvars>>

\* ------------------------------------------------ PUT /api/campaigns/:id
\* The request body, as far as it reaches the campaign's status: scheduledAt
\* given as a date ("schedule") or given as null ("unschedule").  The other
\* fields of the body (name, variables, targeting) are not kept here: the
\* campaign's segmentId is the one it was created with.
EditBodies == {"schedule", "unschedule"}

EditAllowed(status) == status \in {"DRAFT", "SCHEDULED", "PAUSED"}

EditRead ==
  /\ apc = "idle"
  /\ \E body \in EditBodies :
       IF EditAllowed(campaign.status)
         THEN /\ apc' = "editWrite"
              /\ abody' = body
         ELSE UNCHANGED <<apc, abody>>
  /\ UNCHANGED <<campaign, messages, nextExt, lvars, hvars, ovars, xvars>>

\* updateData.status follows scheduledAt when scheduledAt is given
ApplyEdit(c, body) ==
  CASE body = "schedule" -> [c EXCEPT !.status = "SCHEDULED"]
    [] body = "unschedule" -> [c EXCEPT !.status = "DRAFT"]
    [] OTHER -> c

EditWrite ==
  /\ apc = "editWrite"
  /\ campaign' = ApplyEdit(campaign, abody)
  /\ apc' = "idle"
  /\ abody' = "none"
  /\ UNCHANGED <<messages, nextExt, lvars, hvars, ovars, xvars>>

\* ------------------------------------------- handleStatusUpdate (webhooks)
\* (StatusAcceptedAlways is the mutant of StatusAccepted without the test.)
\* routes/chatbot.js: the update is skipped when
\*   statusOrder[dbStatus] <= statusOrder[dbMessage.status] && dbStatus !== 'FAILED'
\* routes/webhooks.js has no such test: every mapped status is applied.
StatusAcceptedAlways(route, current, dbStatus) == TRUE

StatusAccepted(route, current, dbStatus) ==
  \/ route = "webhooks"
  \/ ~(statusOrder[dbStatus] <= statusOrder[current] /\ dbStatus # "FAILED")

\* The campaign counter a status increments; routes/webhooks.js has no line
\* for SENT.
CounterOf(route, dbStatus) ==
  CASE dbStatus = "SENT" -> IF route = "chatbot" THEN "sent" ELSE "none"
    [] dbStatus = "DELIVERED" -> "delivered"
    [] dbStatus = "READ" -> "read"
    [] dbStatus = "FAILED" -> "failed"
    [] OTHER -> "none"

\* message.findFirst({where: {externalId}}): some row carrying that id
RowsWithExternalId(ext) == {r \in Rows : messages[r].externalId = ext}

\* A status event for a message id the gateway issued arrives at one of the
\* two routers; the handler maps the status, finds the message and tests the
\* progression.  A callback that is dropped changes nothing.
CallbackRead(h) ==
  /\ hpc[h] = "idle"
  /\ ncb < MaxCallbacks
  /\ \E route \in Routes, w \in WaStatuses, ext \in 1..(nextExt - 1) :
       \E r \in RowsWithExternalId(ext) :
         /\ StatusAccepted(route, messages[r].status, statusMap[w])
         /\ hpc' = [hpc EXCEPT ![h] = "updateMessage"]
         /\ hroute' = [hroute EXCEPT ![h] = route]
         /\ hrow' = [hrow EXCEPT ![h] = r]
         /\ hcur' = [hcur EXCEPT ![h] = messages[r].status]
         /\ hst' = [hst EXCEPT ![h] = statusMap[w]]
  /\ ncb' = ncb + 1
  /\ UNCHANGED <<campaign, messages, nextExt, lvars, avars, entered, credited,
                 ovars, xvars>>

\* prisma.message.update({where: {id: dbMessage.id}, data: {status: dbStatus}})
CallbackUpdateMessage(h) ==
  /\ hpc[h] = "updateMessage"
  /\ messages' = [messages EXCEPT
       ![hrow[h]].status = hst[h],
       ![hrow[h]].error = IF hst[h] = "FAILED" THEN "callback" ELSE @]
  /\ entered' = IF messages[hrow[h]].status # hst[h]
                  THEN [entered EXCEPT ![hrow[h]][hst[h]] = @ + 1]
                  ELSE entered
  /\ hpc' = [hpc EXCEPT ![h] = "updateCampaign"]
  /\ UNCHANGED <<campaign, nextExt, lvars, avars, hroute, hrow, hcur, hst, ncb,
                 credited, ovars, xvars>>

\* prisma.campaign.update({data: {<counter>: {increment: 1}}})
Increment(c, counter) ==
  IF counter = "none" THEN c ELSE [c EXCEPT ![counter] = @ + 1]

CallbackUpdateCampaign(h) ==
  /\ hpc[h] = "updateCampaign"
  /\ campaign' = Increment(campaign, CounterOf(hroute[h], hst[h]))
  /\ credited' = IF CounterOf(hroute[h], hst[h]) # "none"
                   THEN [credited EXCEPT ![hrow[h]][hst[h]] = @ + 1]
                   ELSE credited
  /\ hpc' = [hpc EXCEPT ![h] = "idle"]
  /\ hroute' = [hroute EXCEPT ![h] = "chatbot"]
  /\ hrow' = [hrow EXCEPT ![h] = 0]
  /\ hcur' = [hcur EXCEPT ![h] = "PENDING"]
  /\ hst' = [hst EXCEPT ![h] = "PENDING"]
  /\ UNCHANGED <<messages, nextExt, lvars, avars, ncb, entered, ovars, xvars>>

\* --------------------------------------------- DELETE /api/campaigns/:id
\* if (existing.status === 'RUNNING') return 400 'Suppression impossible'
DeleteRejected(status) == status = "RUNNING"

\* findUnique with the count of messages, then the RUNNING guard.  Delete
\* requests are served here while no launch, cancel or edit is in progress.
DeleteRead ==
  /\ dpc = "idle"
  /\ ~deleted
  /\ apc = "idle"
  /\ \A p \in Launchers : lpc[p] = "idle"
  /\ IF DeleteRejected(campaign.status)
       THEN UNCHANGED dpc
       ELSE dpc' = IF Len(messages) > 0 THEN "deleteMessages" ELSE "deleteCampaign"
  /\ UNCHANGED <<campaign, messages, nextExt, lvars, avars, hvars, ovars, nextToken,
                 deleted, jobs, kvars, svars, wvars, tvars>>

\* prisma.message.deleteMany({where: {campaignId: id}})
DeleteMessages ==
  /\ dpc = "deleteMessages"
  /\ messages' = <<>>
  /\ entered' = <<>>
  /\ credited' = <<>>
  /\ dpc' = "deleteCampaign"
  /\ UNCHANGED <<campaign, nextExt, lvars, avars, hpc, hroute, hrow, hcur, hst, ncb,
                 ovars, nextToken, deleted, jobs, kvars, svars, wvars, tvars>>

\* prisma.campaign.delete({where: {id}})
DeleteCampaign ==
  /\ dpc = "deleteCampaign"
  /\ deleted' = TRUE
  /\ dpc' = "idle"
  /\ UNCHANGED <<campaign, messages, nextExt, lvars, avars, hvars, ovars, nextToken,
                 jobs, kvars, svars, wvars, tvars>>

\* ------------------------------------------ queue mode (Bull 'campaigns')
\* launchCampaign with campaignQueue set: after createMany the campaign is set
\* RUNNING, then the batches are handed to the queue with addBulk, one
\* 'send-messages' job per batch.
RECURSIVE Batches(_)
Batches(contacts) ==
  IF Len(contacts) = 0 THEN <<>>
  ELSE IF Len(contacts) <= BatchSize THEN <<contacts>>
  ELSE <<SubSeq(contacts, 1, BatchSize)>>
         \o Batches(SubSeq(contacts, BatchSize + 1, Len(contacts)))

\* A job as addBulk puts it in the queue.  `attemptsMade` is the queue's count
\* of failed attempts; `sends` and `counted` keep how many times the batch
\* was sent through the gateway and added to the campaign's counters.
NewJob(batch) ==
  [batch |-> batch, state |-> "waiting", succeeded |-> {},
   results |-> NoStats, attemptsMade |-> 0, sends |-> 0, counted |-> 0]

SetRunningQueue(p) ==
  /\ lpc[p] = "setRunning"
  /\ campaign' = [campaign EXCEPT !.status = "RUNNING"]
  /\ lpc' = [lpc EXCEPT ![p] = "enqueue"]
  /\ UNCHANGED <<messages, nextExt, lcontacts, lidx, lstats, ltotal, lres, avars,
                 hvars, ovars, xvars>>

\* await campaignQueue.addBulk(batches.map(...)); launchCampaign returns.
EnqueueBatches(p) ==
  /\ lpc[p] = "enqueue"
  /\ jobs' = jobs \o [i \in 1..Len(Batches(lcontacts[p])) |->
                        NewJob(Batches(lcontacts[p])[i])]
  /\ lpc' = [lpc EXCEPT ![p] = "idle"]
  /\ lres' = [lres EXCEPT ![p] = "ok"]
  /\ lcontacts' = [lcontacts EXCEPT ![p] = <<>>]
  /\ UNCHANGED <<campaign, messages, nextExt, lidx, lstats, ltotal, avars, hvars,
                 ovars, nextToken, dvars, svars, kvars, wvars, tvars>>

\* The worker of setupWorkers takes a job: this.sendBatch(batch, ...) calls
\* whatsappService.sendBatch, which sends every message of the batch and
\* returns only the counts {sent, failed, errors}.  `succeeded` keeps which
\* contacts the gateway accepted (the code drops it).  No message row is
\* read or written by the worker.
SendResults(batch, succeeded) ==
  [sent |-> Cardinality(succeeded), failed |-> Len(batch) - Cardinality(succeeded)]

JobSend(j) ==
  /\ jobs[j].state = "waiting"
  /\ \E succeeded \in SUBSET {jobs[j].batch[i] : i \in DOMAIN jobs[j].batch} :
       /\ jobs' = [jobs EXCEPT ![j].state = "stats",
                               ![j].sends = @ + 1,
                               ![j].succeeded = succeeded,
                               ![j].results = SendResults(jobs[j].batch, succeeded)]
       /\ nextExt' = nextExt + Cardinality(succeeded)
  /\ UNCHANGED <<campaign, messages, lvars, avars, hvars, ovars, nextToken, dvars, svars,
                 kvars, wvars, tvars>>

\* updateCampaignStats: sent += sent + failed, delivered += sent,
\* failed += failed
IncrementStats(c, results) ==
  [c EXCEPT !.sent = @ + results.sent + results.failed,
            !.delivered = @ + results.sent,
            !.failed = @ + results.failed]

JobStats(j) ==
  /\ jobs[j].state = "stats"
  /\ campaign' = IncrementStats(campaign, jobs[j].results)
  /\ jobs' = [jobs EXCEPT ![j].state = "count", ![j].counted = @ + 1]
  /\ UNCHANGED <<messages, nextExt, lvars, avars, hvars, ovars, nextToken, dvars, svars,
                 kvars, wvars, tvars>>

\* updateCampaignStats: [total, processed] = await Promise.all([count, count]);
\* if (processed >= total) the campaign is updated to COMPLETED.  The counts
\* and the update are one step here.
JobCompletionCheck(j) ==
  /\ jobs[j].state = "count"
  /\ campaign' = IF AllProcessed(CountStatus(ProcessedStatuses), Len(messages))
                   THEN [campaign EXCEPT !.status = "COMPLETED"]
                   ELSE campaign
  /\ jobs' = [jobs EXCEPT ![j].state = "done"]
  /\ UNCHANGED <<messages, nextExt, lvars, avars, hvars, ovars, nextToken, dvars, svars,
                 kvars, wvars, tvars>>

\* defaultJobOptions.attempts: the queue runs a job's function again from
\* its start after it threw, until this many attempts were made.
attempts == 3

\* updateCampaignStats throws (one of its database calls is rejected) after
\* sendBatch returned: before the increment, or after it at the counts or at
\* the COMPLETED update.  The job goes back to the queue, or fails for good
\* once its attempts are used up.
JobStatsThrows(j) ==
  /\ jobs[j].state \in {"stats", "count"}
  /\ jobs' = [jobs EXCEPT
                ![j].attemptsMade = @ + 1,
                ![j].state = IF jobs[j].attemptsMade + 1 < attempts
                               THEN "waiting" ELSE "failed"]
  /\ UNCHANGED <<campaign, messages, nextExt, lvars, avars, hvars, ovars, nextToken,
                 dvars, svars, kvars, wvars, tvars>>

\* ------------------------------ GET /t/:trackingId/:buttonIndex? (server.js)
MaxClicks == 3

\* process.env.TRACKING_FALLBACK_URL || 'https://cnsssaas.ga/'
fallback == "fallback"

\* campaign.template.buttons: one button with a redirectUrl, at index 0
buttons == [b \in {0} |-> "target0"]

\* req.params.buttonIndex as it may arrive: absent, "0", "1", or not a number
RawButtonIndexes == {"absent", "0", "1", "x"}

\* parseInt(req.params.buttonIndex) || 0
parseButtonIndex(raw) ==
  CASE raw = "1" -> 1
    [] OTHER -> 0

\* A token no message carries
UnknownToken == 0 - 1

TokensAsked == {messages[r].trackingId : r \in Rows} \cup {UnknownToken}

findFirstOrAny(trackingId) ==
  IF \E r \in Rows : messages[r].trackingId = trackingId
    THEN CHOOSE r \in Rows : messages[r].trackingId = trackingId
    ELSE IF Rows # {} THEN 1 ELSE 0

\* prisma.message.findFirst({where: {trackingId}}): the first matching row,
\* or 0 for null
findFirst(trackingId) ==
  IF \E r \in Rows : messages[r].trackingId = trackingId
    THEN CHOOSE r \in Rows :
           /\ messages[r].trackingId = trackingId
           /\ \A q \in Rows : messages[q].trackingId = trackingId => r <= q
    ELSE 0

\* clickedButtons.some(c => c.index === buttonIndex)
alreadyClickedAlways(clickedButtons, buttonIndex) == FALSE

alreadyClicked(clickedButtons, buttonIndex) ==
  \E i \in DOMAIN clickedButtons : clickedButtons[i].index = buttonIndex

\* The redirect target of a tracked button: its redirectUrl, else fallback
\* (the campaign of this model has no buttonUrls / buttonUrl variable)
targetUrl(buttonIndex) ==
  IF buttonIndex \in DOMAIN buttons THEN buttons[buttonIndex] ELSE fallback

ClickRespond(k, url) ==
  /\ kpc' = [kpc EXCEPT ![k] = "idle"]
  /\ kres' = [kres EXCEPT ![k] = url]

\* The request up to the answer of findFirst: unknown token -> fallback; a
\* button already in the log -> straight to the redirect.
ClickRead(k) ==
  /\ kpc[k] = "idle"
  /\ now <= MaxClicks
  /\ now' = now + 1
  /\ \E trackingId \in TokensAsked, raw \in RawButtonIndexes :
       LET row == findFirst(trackingId)
           buttonIndex == parseButtonIndex(raw)
       IN /\ ktok' = [ktok EXCEPT ![k] = trackingId]
          /\ krow' = [krow EXCEPT ![k] = row]
          /\ kbtn' = [kbtn EXCEPT ![k] = buttonIndex]
          /\ IF row = 0
               THEN /\ ClickRespond(k, fallback)
                    /\ kmsg' = [kmsg EXCEPT ![k] = NoMessage]
               ELSE /\ kmsg' = [kmsg EXCEPT ![k] =
                         [clickedButtons |-> messages[row].clickedButtons,
                          clickedAt |-> messages[row].clickedAt]]
                    /\ IF alreadyClicked(messages[row].clickedButtons, buttonIndex)
                         THEN ClickRespond(k, targetUrl(buttonIndex))
                         ELSE /\ kpc' = [kpc EXCEPT ![k] = "updateMessage"]
                              /\ kres' = [kres EXCEPT ![k] = "none"]
  /\ UNCHANGED <<campaign, messages, nextExt, lvars, avars, hvars, ovars,
                 nextToken, dvars, svars, jobs, wvars, tvars>>

\* updateData = {clickedButtons} plus clickedAt when the row read had none;
\* prisma.message.update({where: {id}, data: updateData})
updateData(row, msg, buttonIndex, date) ==
  [row EXCEPT
     !.clickedButtons = Append(msg.clickedButtons,
                               [index |-> buttonIndex, clickedAt |-> date]),
     !.clickedAt = IF msg.clickedAt = NoTimestamp THEN date ELSE @]

ClickUpdateMessage(k) ==
  /\ kpc[k] = "updateMessage"
  /\ messages' = [messages EXCEPT ![krow[k]] =
                    updateData(@, kmsg[k], kbtn[k], now)]
  /\ IF kmsg[k].clickedAt = NoTimestamp
       THEN /\ kpc' = [kpc EXCEPT ![k] = "updateCampaign"]
            /\ UNCHANGED kres
       ELSE ClickRespond(k, targetUrl(kbtn[k]))
  /\ UNCHANGED <<campaign, nextExt, lvars, avars, hvars, ovars, nextToken,
                 dvars, svars, jobs, ktok, krow, kbtn, kmsg, now, wvars, tvars>>

\* prisma.campaign.update({data: {clicked: {increment: 1}}})
ClickUpdateCampaign(k) ==
  /\ kpc[k] = "updateCampaign"
  /\ campaign' = [campaign EXCEPT !.clicked = @ + 1]
  /\ ClickRespond(k, targetUrl(kbtn[k]))
  /\ UNCHANGED <<messages, nextExt, lvars, avars, hvars, ovars, nextToken,
                 dvars, svars, jobs, ktok, krow, kbtn, kmsg, now, wvars, tvars>>

\* One of the two updates throws: catch (err) { res.redirect(fallback) }
ClickUpdateThrows(k) ==
  /\ kpc[k] \in {"updateMessage", "updateCampaign"}
  /\ ClickRespond(k, fallback)
  /\ UNCHANGED <<campaign, messages, nextExt, lvars, avars, hvars, ovars,
                 nextToken, dvars, svars, jobs, ktok, krow, kbtn, kmsg, now, wvars, tvars>>

\* ------------------------------------ evaluateCount / evaluateContacts calls
\* evaluateCount(prisma, criteria): buildWhereClause throws before the query
\* is built, otherwise one prisma.contact.count({where}) is issued.
EvaluateCount ==
  /\ sres = NoResponse
  /\ LET criteriaWhere == buildWhereClause(sreq)
     IN IF criteriaWhere.kind = "throw"
          THEN /\ sres' = Response("evaluateCount", 0, criteriaWhere.error, 0, {})
               /\ UNCHANGED queries
          ELSE /\ sres' = Response("evaluateCount", 0, "none",
                   Cardinality(findMany(contactStore, evaluateWhere(criteriaWhere))),
                   {})
               /\ queries' = queries + 1
  /\ UNCHANGED <<campaign, messages, nextExt, lvars, avars, hvars, ovars,
                 nextToken, dvars, jobs, kvars, spc, contactStore, segments, sreq,
                 wvars, tvars>>

\* evaluateContacts(prisma, criteria): the same with prisma.contact.findMany
EvaluateContacts ==
  /\ sres = NoResponse
  /\ LET criteriaWhere == buildWhereClause(sreq)
     IN IF criteriaWhere.kind = "throw"
          THEN /\ sres' = Response("evaluateContacts", 0, criteriaWhere.error, 0, {})
               /\ UNCHANGED queries
          ELSE /\ sres' = Response("evaluateContacts", 0, "none", 0,
                   findMany(contactStore, evaluateWhere(criteriaWhere)))
               /\ queries' = queries + 1
  /\ UNCHANGED <<campaign, messages, nextExt, lvars, avars, hvars, ovars,
                 nextToken, dvars, jobs, kvars, spc, contactStore, segments, sreq,
                 wvars, tvars>>

\* ------------------------------------------------- routes/segments (router)
\* A criteria the request body does not carry (PUT without `criteria`)
UndefinedCriteria == [form |-> "undefined"]

\* The errors the compiler throws
ValidationErrors == {"Champ non autorise", "Operateur non supporte"}

\* The name a segment of the model is created under (one name per id, so
\* the unique-name conflict P2002 does not arise)
SegmentName(s) ==
  CASE s = "segAll" -> "vip"
    [] s = "segEmpty" -> "nobody"
    [] OTHER -> "fresh"

\* Mutant of CountOf: the count query without the ACTIVE and optedIn base.
CountOfCriteriaOnly(criteriaWhere) ==
  Cardinality(findMany(contactStore, criteriaWhere))

\* evaluateCount / evaluateContacts on a where that compiled
CountOf(criteriaWhere) ==
  Cardinality(findMany(contactStore, evaluateWhere(criteriaWhere)))
ContactsOf(criteriaWhere) == findMany(contactStore, evaluateWhere(criteriaWhere))

\* POST /api/segments/preview: 400 without criteria; evaluateCount, then
\* evaluateContacts; a throw of either is answered 500.
Preview(criteria) ==
  /\ sreq' = criteria
  /\ IF criteria.form = "null"
       THEN /\ sres' = Response("preview", 400, "Criteres requis", 0, {})
            /\ UNCHANGED queries
       ELSE LET criteriaWhere == buildWhereClause(criteria)
            IN IF criteriaWhere.kind = "throw"
                 THEN /\ sres' = Response("preview", 500, criteriaWhere.error, 0, {})
                      /\ UNCHANGED queries
                 ELSE /\ sres' = Response("preview", 200, "none",
                                          CountOf(criteriaWhere),
                                          ContactsOf(criteriaWhere))
                      /\ queries' = queries + 2
  /\ UNCHANGED <<campaign, messages, nextExt, lvars, avars, hvars, ovars,
                 nextToken, dvars, jobs, kvars, spc, contactStore, segments, wvars, tvars>>

\* Mutant of validate: every criteria is accepted.
validateNothing(criteria) == MatchAll

\* "Validate criteria by attempting to build where clause": the call of
\* buildWhereClause the create and update handlers make before they write
validate(criteria) == buildWhereClause(criteria)

\* POST /api/segments: 400 without criteria; buildWhereClause(criteria)
\* validates; evaluateCount; prisma.segment.create with type DYNAMIC.
SegmentCreate(s, criteria) ==
  /\ ~segments[s].exists
  /\ sreq' = criteria
  /\ IF criteria.form = "null"
       THEN /\ sres' = Response("create", 400, "Donnees manquantes", 0, {})
            /\ UNCHANGED <<queries, segments>>
       ELSE LET criteriaWhere == validate(criteria)
            IN IF criteriaWhere.kind = "throw"
                 THEN /\ sres' = Response("create", 500, criteriaWhere.error, 0, {})
                      /\ UNCHANGED <<queries, segments>>
                 ELSE /\ segments' = [segments EXCEPT ![s] =
                           Segment(SegmentName(s), "DYNAMIC", criteria,
                                   CountOf(criteriaWhere))]
                      /\ sres' = Response("create", 201, "none",
                                          CountOf(criteriaWhere), {})
                      /\ queries' = queries + 1
  /\ UNCHANGED <<campaign, messages, nextExt, lvars, avars, hvars, ovars,
                 nextToken, dvars, jobs, kvars, spc, contactStore, wvars, tvars>>

\* PUT /api/segments/:id: 404 without the row; when the body carries
\* criteria, buildWhereClause(criteria) validates and the count is
\* re-evaluated; prisma.segment.update.
SegmentUpdate(s, criteria) ==
  /\ sreq' = criteria
  /\ IF ~segments[s].exists
       THEN /\ sres' = Response("update", 404, "Segment non trouve", 0, {})
            /\ UNCHANGED <<queries, segments>>
     ELSE IF criteria.form = "undefined"
       THEN /\ sres' = Response("update", 200, "none", 0, {})
            /\ UNCHANGED <<queries, segments>>
     ELSE LET criteriaWhere == validate(criteria)
          IN IF criteriaWhere.kind = "throw"
               THEN /\ sres' = Response("update", 500, criteriaWhere.error, 0, {})
                    /\ UNCHANGED <<queries, segments>>
               ELSE /\ segments' = [segments EXCEPT
                         ![s].criteria = criteria,
                         ![s].contactCount = CountOf(criteriaWhere)]
                    /\ sres' = Response("update", 200, "none",
                                        CountOf(criteriaWhere), {})
                    /\ queries' = queries + 1
  /\ UNCHANGED <<campaign, messages, nextExt, lvars, avars, hvars, ovars,
                 nextToken, dvars, jobs, kvars, spc, contactStore, wvars, tvars>>

\* ------------------------------- launchCampaign with resolveTargetContacts
\* campaign.segmentId: null
NoSegmentId == "none"

\* launchCampaign up to createMany, the target resolved as
\* resolveTargetContacts does: the segment's criteria when segmentId is
\* set ('Segment non trouve' without the row), else the inline criteria,
\* else the legacy query on every ACTIVE opted-in contact.
TargetCriteria(c) ==
  IF c.segmentId # NoSegmentId THEN segments[c.segmentId].criteria
  ELSE c.inlineCriteria

\* The legacy query: {status: 'ACTIVE', optedIn: true}, with the category
\* when legacySegment is set and is not 'ALL'
legacyWhere(c) ==
  AllOf(<<Cond("status", "equals", Text("ACTIVE")),
          Cond("optedIn", "equals", Bool(TRUE))>>
        \o (IF c.legacySegment # NoLegacySegment /\ c.legacySegment # "ALL"
              THEN <<Cond("category", "equals", Text(c.legacySegment))>>
              ELSE <<>>))

\* Mutant of resolveTargetContacts: the inline criteria looked at before the
\* segment reference.
resolveTargetContactsInlineFirst(c) ==
  IF c.inlineCriteria # NullCriteria
    THEN ContactsOf(buildWhereClause(c.inlineCriteria))
  ELSE IF c.segmentId # NoSegmentId
    THEN ContactsOf(buildWhereClause(segments[c.segmentId].criteria))
  ELSE findMany(contactStore, legacyWhere(c))

\* resolveTargetContacts once the segment row is found and the criteria
\* compile
resolveTargetContacts(c) ==
  IF c.segmentId # NoSegmentId
    THEN ContactsOf(buildWhereClause(segments[c.segmentId].criteria))
  ELSE IF c.inlineCriteria # NullCriteria
    THEN ContactsOf(buildWhereClause(c.inlineCriteria))
  ELSE findMany(contactStore, legacyWhere(c))

LaunchResolve(p) ==
  /\ lpc[p] \in {"idle", "sched"}
  /\ IF LaunchRejected(campaign.status)
       THEN /\ lres' = [lres EXCEPT ![p] = "already_running"]
            /\ lpc' = [lpc EXCEPT ![p] = "idle"]
            /\ UNCHANGED <<lcontacts, queries>>
     ELSE IF campaign.segmentId # NoSegmentId /\ ~segments[campaign.segmentId].exists
       THEN /\ lres' = [lres EXCEPT ![p] = "segment_not_found"]
            /\ lpc' = [lpc EXCEPT ![p] = "idle"]
            /\ UNCHANGED <<lcontacts, queries>>
     ELSE LET criteriaWhere == buildWhereClause(TargetCriteria(campaign))
          IN IF criteriaWhere.kind = "throw"
               THEN /\ lres' = [lres EXCEPT ![p] = criteriaWhere.error]
                    /\ lpc' = [lpc EXCEPT ![p] = "idle"]
                    /\ UNCHANGED <<lcontacts, queries>>
               ELSE LET contacts == SetToSeq(resolveTargetContacts(campaign))
                    IN /\ queries' = queries + 1
                       /\ IF NoRecipients(contacts)
                            THEN /\ lres' = [lres EXCEPT ![p] = "no_contacts"]
                                 /\ lpc' = [lpc EXCEPT ![p] = "idle"]
                                 /\ UNCHANGED lcontacts
                            ELSE /\ Len(messages) + Len(contacts) <= MaxMessages
                                 /\ lres' = [lres EXCEPT ![p] = "none"]
                                 /\ lpc' = [lpc EXCEPT ![p] = "create"]
                                 /\ lcontacts' = [lcontacts EXCEPT ![p] = contacts]
  /\ UNCHANGED <<campaign, messages, nextExt, lidx, lstats, ltotal, avars, hvars,
                 ovars, nextToken, dvars, jobs, kvars, spc, contactStore, segments,
                 sreq, sres, wvars, tvars>>

\* ------------------------------------ gateway calls of processDirectSend
\* `result = await whatsappService.sendTemplate(...)` seen as two steps: the
\* request leaves (SendCall) and its answer comes back and is written on the
\* message rows (SendReturn, the same writes as SendOne).  Between the two
\* the call is in flight.
SendCall(p) ==
  /\ lpc[p] = "send"
  /\ lpc' = [lpc EXCEPT ![p] = "call"]
  /\ UNCHANGED <<campaign, messages, nextExt, lcontacts, lidx, lstats, ltotal, lres,
                 avars, hvars, ovars, xvars>>

SendReturn(p) ==
  /\ lpc[p] = "call"
  /\ \E success \in BOOLEAN :
       /\ messages' = [r \in Rows |->
            SendOutcome(messages[r], lcontacts[p][lidx[p]], success, nextExt)]
       /\ nextExt' = IF success THEN nextExt + 1 ELSE nextExt
  /\ IF LastOfBatch(lidx[p], Len(lcontacts[p]))
       THEN /\ lpc' = [lpc EXCEPT ![p] = "stats"]
            /\ UNCHANGED lidx
       ELSE /\ lidx' = [lidx EXCEPT ![p] = lidx[p] + 1]
            /\ lpc' = [lpc EXCEPT ![p] = "send"]
  /\ UNCHANGED <<campaign, lcontacts, lstats, ltotal, lres, avars, hvars, ovars, xvars>>

\* ------------------------------------------- POST /webhooks/whatsapp
\* One element of value.statuses as the gateway (or anybody else) posts it:
\* an object with `id` and `status`, or not an object at all (null).  An
\* `id` of NoExternalId is the JSON null.
StatusEvent(id, status) == [shape |-> "object", id |-> id, status |-> status]
NullEvent == [shape |-> "null", id |-> NoExternalId, status |-> "none"]

\* The status events of the model: a known, a null and an unknown id, with
\* two statuses of statusMap and one that is not in it.
WebhookEvents ==
  {StatusEvent(id, status) :
     id \in {NoExternalId, 1, MaxMessages + 5},
     status \in {"delivered", "failed", "deleted"}}
  \cup {NullEvent}

Payloads == UNION {[1..n -> WebhookEvents] : n \in 1..2}

\* The request arrives: res.status(200).json({received: true}) is sent
\* before anything is processed.
WebhookReceive ==
  /\ wpos = Len(wevents)
  /\ \E payload \in Payloads :
       /\ ncb + Len(payload) <= MaxCallbacks
       /\ ncb' = ncb + Len(payload)
       /\ wevents' = payload
  /\ wpos' = 0
  /\ wack' = 200
  /\ UNCHANGED <<campaign, messages, nextExt, lvars, avars, hpc, hroute, hrow, hcur,
                 hst, entered, credited, ovars, nextToken, dvars, jobs, kvars, svars, tvars>>

\* handleStatusUpdate(status) for the next element of the payload, to its
\* end.  Reading `status.id` of a null throws into the handler's own catch;
\* a status statusMap does not know returns; findFirst({where: {externalId}})
\* returns some row whose externalId equals the id (for null: a row that
\* has no external id yet) or nothing; then the progression test, the
\* message update and the campaign counter.
HandleStatus(status, r) ==
  LET dbStatus == statusMap[status.status]
  IN IF StatusAccepted("chatbot", messages[r].status, dbStatus)
       THEN /\ messages' = [messages EXCEPT
                 ![r].status = dbStatus,
                 ![r].error = IF dbStatus = "FAILED" THEN "callback" ELSE @]
            /\ campaign' = Increment(campaign, CounterOf("chatbot", dbStatus))
            /\ entered' = IF messages[r].status # dbStatus
                            THEN [entered EXCEPT ![r][dbStatus] = @ + 1]
                            ELSE entered
            /\ credited' = [credited EXCEPT ![r][dbStatus] = @ + 1]
       ELSE UNCHANGED <<messages, campaign, entered, credited>>

WebhookHandleStatus ==
  /\ wpos < Len(wevents)
  /\ wpos' = wpos + 1
  /\ LET status == wevents[wpos + 1]
     IN IF status.shape = "null" \/ status.status \notin WaStatuses
             \/ RowsWithExternalId(status.id) = {}
          THEN UNCHANGED <<messages, campaign, entered, credited>>
          ELSE \E r \in RowsWithExternalId(status.id) : HandleStatus(status, r)
  /\ UNCHANGED <<nextExt, lvars, avars, hpc, hroute, hrow, hcur, hst, ncb, ovars,
                 nextToken, dvars, jobs, kvars, svars, wevents, wack, tvars>>

\* --------------------------------- add-contacts / segment-from-sessions
\* segment.name.replace(/\s+/g, '_').toLowerCase(); the names of the model
\* are lower-case words without whitespace except "Top Gold".
normalise(name) ==
  CASE name = "Top Gold" -> "top_gold"
    [] OTHER -> name

\* 'seg_' + the normalised name
tagName(name) == "seg_" \o normalise(name)

\* {field: 'tags', op: 'has', value: tagName}
TagRule(tag) == [field |-> "tags", op |-> "has", value |-> Text(tag)]

\* {operator: 'AND', rules: [{field: 'tags', op: 'has', value: tagName}]}
newCriteria(tag) == Tree("AND", <<TagRule(tag)>>, <<>>)

\* data: {tags: {push: tagName}} on every contact of `ids` that has a row
\* and does not carry the tag yet
pushTag(store, ids, tag) ==
  [id \in DOMAIN store |->
     IF id \in ids THEN [store[id] EXCEPT !.tags = @ \cup {tag}] ELSE store[id]]

\* (criteria.rules || []).some(r => r.field === 'tags' && r.op === 'has' &&
\* r.value === tagName): only the rules of the root are looked at
hasTagRule(criteria, tag) ==
  \E i \in DOMAIN criteria.rules : criteria.rules[i] = TagRule(tag)

\* (criteria.rules || []).some(r => !(r.field === 'tags' && r.op === 'has'))
hasNonTagRules(criteria) ==
  \E i \in DOMAIN criteria.rules :
    ~(criteria.rules[i].field = "tags" /\ criteria.rules[i].op = "has")

\* segment.criteria || {operator: 'AND', rules: []}
criteriaOrEmpty(criteria) ==
  IF criteria.form = "null" THEN Tree("AND", <<>>, <<>>) ELSE criteria

\* POST /api/segments/:id/add-contacts: 400 without contactIds, 404
\* without the row; the contacts the criteria resolves are tagged first
\* when the root has a non-tag rule and not the segment's tag rule; each
\* contact of the body is tagged; the criteria becomes the tag rule and
\* the type STATIC; the count is re-evaluated.
AddContacts(s, contactIds) ==
  /\ IF contactIds = {}
       THEN /\ sres' = Response("addContacts", 400, "contactIds requis", 0, {})
            /\ UNCHANGED <<contactStore, segments, queries>>
     ELSE IF ~segments[s].exists
       THEN /\ sres' = Response("addContacts", 404, "Segment non trouve", 0, {})
            /\ UNCHANGED <<contactStore, segments, queries>>
     ELSE LET tag == tagName(segments[s].name)
              criteria == criteriaOrEmpty(segments[s].criteria)
              tagExisting == ~hasTagRule(criteria, tag) /\ hasNonTagRules(criteria)
              criteriaWhere == buildWhereClause(criteria)
          IN IF tagExisting /\ criteriaWhere.kind = "throw"
               THEN /\ sres' = Response("addContacts", 500, criteriaWhere.error, 0, {})
                    /\ UNCHANGED <<contactStore, segments, queries>>
               ELSE LET existingContacts ==
                          IF tagExisting THEN ContactsOf(criteriaWhere) ELSE {}
                        store == pushTag(contactStore, existingContacts \cup contactIds, tag)
                        contactCount ==
                          Cardinality(findMany(store,
                            evaluateWhere(buildWhereClause(newCriteria(tag)))))
                    IN /\ contactStore' = store
                       /\ segments' = [segments EXCEPT
                            ![s].criteria = newCriteria(tag),
                            ![s].type = "STATIC",
                            ![s].contactCount = contactCount]
                       /\ sres' = Response("addContacts", 200, "none", contactCount, {})
                       /\ queries' = queries + (IF tagExisting THEN 2 ELSE 1)
  /\ UNCHANGED <<campaign, messages, nextExt, lvars, avars, hvars, ovars,
                 nextToken, dvars, jobs, kvars, spc, sreq, wvars, tvars>>

\* segmentName.toLowerCase().replace(/[^a-z0-9]+/g, '_').replace(/^_|_$/g, '')
sessionsTagName(segmentName) ==
  "seg_" \o (CASE segmentName = "Top Gold" -> "top_gold" [] OTHER -> segmentName)

\* name: segmentName.toLowerCase().replace(/\s+/g, '_')
sessionsSegmentName(segmentName) ==
  CASE segmentName = "Top Gold" -> "top_gold"
    [] OTHER -> segmentName

\* POST /api/chatbot/segment-from-sessions: 400 without a contact; every
\* selected contact is tagged; prisma.segment.create with the tag rule, type
\* STATIC and contactCount: cids.length.
SegmentFromSessions(s, segmentName, cids) ==
  /\ ~segments[s].exists
  /\ IF cids = {}
       THEN /\ sres' = Response("fromSessions", 400, "Aucun contact selectionne", 0, {})
            /\ UNCHANGED <<contactStore, segments>>
       ELSE /\ contactStore' = pushTag(contactStore, cids, sessionsTagName(segmentName))
            /\ segments' = [segments EXCEPT ![s] =
                 Segment(sessionsSegmentName(segmentName), "STATIC",
                         newCriteria(sessionsTagName(segmentName)),
                         Cardinality(cids))]
            /\ sres' = Response("fromSessions", 200, "none", Cardinality(cids), {})
  /\ UNCHANGED <<campaign, messages, nextExt, lvars, avars, hvars, ovars,
                 nextToken, dvars, jobs, kvars, spc, sreq, queries, wvars, tvars>>

\* ------------------------------------------- DELETE /api/segments/:id
\* segment._count.campaigns: the campaigns whose segmentId is this segment
CampaignsOf(s) == IF ~deleted /\ campaign.segmentId = s THEN 1 ELSE 0

\* segment._count.campaigns > 0
DeleteSegmentRejected(count) == count > 0

\* findUnique with the campaign count: 404 without the row, 400 'Segment
\* utilise' when a campaign references it; otherwise the handler goes on to
\* the delete.
SegmentDeleteRead(s) ==
  /\ spc = "idle"
  /\ IF ~segments[s].exists
       THEN /\ sres' = Response("delete", 404, "Segment non trouve", 0, {})
            /\ UNCHANGED spc
     ELSE IF DeleteSegmentRejected(CampaignsOf(s))
       THEN /\ sres' = Response("delete", 400, "Segment utilise", 0, {})
            /\ UNCHANGED spc
     ELSE /\ spc' = s
          /\ UNCHANGED sres
  /\ UNCHANGED <<campaign, messages, nextExt, lvars, avars, hvars, ovars,
                 nextToken, dvars, jobs, kvars, contactStore, segments, sreq,
                 queries, wvars, tvars>>

\* prisma.segment.delete; the foreign key of campaigns.segmentId is ON
\* DELETE SET NULL, so a campaign that references the row at this moment
\* keeps running with no segment.
SegmentDeleteWrite ==
  /\ spc # "idle"
  /\ spc' = "idle"
  /\ IF ~segments[spc].exists
       THEN /\ sres' = Response("delete", 500, "Erreur lors de la suppression", 0, {})
            /\ UNCHANGED <<segments, campaign>>
       ELSE /\ segments' = [segments EXCEPT ![spc] = NoSegment]
            /\ campaign' = IF campaign.segmentId = spc
                             THEN [campaign EXCEPT !.segmentId = NoSegmentId]
                             ELSE campaign
            /\ sres' = Response("delete", 200, "none", 0, {})
  /\ UNCHANGED <<messages, nextExt, lvars, avars, hvars, ovars, nextToken, dvars,
                 jobs, kvars, contactStore, sreq, queries, wvars, tvars>>

\* PUT /api/campaigns/:id with a segmentId in the body: refused outside
\* DRAFT, SCHEDULED and PAUSED; updateData.segmentId = segmentId || null; the
\* foreign key refuses an id without a segment row (the update throws).
CampaignSetSegment(segmentId) ==
  /\ ~deleted
  /\ IF ~EditAllowed(campaign.status)
       THEN /\ sres' = Response("campaignPut", 400, "Modification impossible", 0, {})
            /\ UNCHANGED campaign
     ELSE IF segmentId # NoSegmentId /\ ~segments[segmentId].exists
       THEN /\ sres' = Response("campaignPut", 500, "Erreur lors de la mise a jour", 0, {})
            /\ UNCHANGED campaign
     ELSE /\ campaign' = [campaign EXCEPT !.segmentId = segmentId]
          /\ sres' = Response("campaignPut", 200, "none", 0, {})
  /\ UNCHANGED <<messages, nextExt, lvars, avars, hvars, ovars, nextToken, dvars,
                 jobs, kvars, contactStore, segments, sreq, spc, queries, wvars, tvars>>

\* ---------------------------------------------------------- specification
\* The state processDirectSend leaves behind when every send of a first
\* launch succeeded: each contact's row SENT with the gateway's id, the
\* counters regrouped, the campaign COMPLETED.
RECURSIVE SentRows(_, _)
SentRows(rows, i) ==
  IF i > Len(rows) THEN rows
  ELSE SentRows([r \in DOMAIN rows |-> SendOutcome(rows[r], rows[i].contactId, TRUE, i)],
                i + 1)

DispatchedInit ==
  /\ messages = SentRows(RowsFor(SetToSeq(Contacts), 1), 1)
  /\ campaign = [createCampaign(FALSE, "segAll") EXCEPT
                   !.status = "COMPLETED",
                   !.sent = Cardinality(Contacts),
                   !.delivered = Cardinality(Contacts)]
  /\ nextExt = Cardinality(Contacts) + 1
  /\ lpc = [p \in Launchers |-> "idle"]
  /\ lcontacts = [p \in Launchers |-> <<>>]
  /\ lidx = [p \in Launchers |-> 0]
  /\ lstats = [p \in Launchers |-> NoStats]
  /\ ltotal = [p \in Launchers |-> 0]
  /\ lres = [p \in Launchers |-> "none"]
  /\ apc = "idle"
  /\ abody = "none"
  /\ hpc = [h \in Handlers |-> "idle"]
  /\ hroute = [h \in Handlers |-> "chatbot"]
  /\ hrow = [h \in Handlers |-> 0]
  /\ hcur = [h \in Handlers |-> "PENDING"]
  /\ hst = [h \in Handlers |-> "PENDING"]
  /\ ncb = 0
  /\ entered = [i \in 1..Cardinality(Contacts) |-> NoCredit]
  /\ credited = [i \in 1..Cardinality(Contacts) |-> NoCredit]
  /\ nextToken = Cardinality(Contacts) + 1
  /\ deleted = FALSE
  /\ dpc = "idle"
  /\ jobs = <<>>
  /\ kpc = [k \in ClickHandlers |-> "idle"]
  /\ ktok = [k \in ClickHandlers |-> NoToken]
  /\ krow = [k \in ClickHandlers |-> 0]
  /\ kbtn = [k \in ClickHandlers |-> 0]
  /\ kmsg = [k \in ClickHandlers |-> NoMessage]
  /\ kres = [k \in ClickHandlers |-> "none"]
  /\ now = 1
  /\ contactStore = SeedContacts
  /\ segments = SeedSegments
  /\ sreq = NullCriteria
  /\ sres = NoResponse
  /\ spc = "idle"
  /\ queries = 0
  /\ wevents = <<>>
  /\ wpos = 0
  /\ wack = 0
  /\ campaigns = <<>>
  /\ scheduledCampaigns = <<>>
  /\ tpos = 0

ReconcileInit ==
  /\ DispatchedInit
  /\ oseq = <<>>
  /\ opos = 0
  /\ ostatus = "SENT"

\* Dispatch: launches (manual and scheduled), the direct-send loop, cancel
\* and edit requests.
Next ==
  \/ \E p \in Launchers : SchedulerTick(p)
  \/ \E p \in Launchers : LaunchRead(p)
  \/ \E p \in Launchers : CreateMessages(p)
  \/ \E p \in Launchers : SetRunning(p)
  \/ \E p \in Launchers : SendOne(p)
  \/ \E p \in Launchers : StatsRead(p)
  \/ \E p \in Launchers : StatsWrite(p)
  \/ \E p \in Launchers : CountTotal(p)
  \/ \E p \in Launchers : CountProcessed(p)
  \/ \E p \in Launchers : SetCompleted(p)
  \/ CancelRead
  \/ CancelWrite
  \/ EditRead
  \/ EditWrite

Spec == Init /\ [][Next]_vars

\* Administration: one launcher's launches and dispatch, cancel, edit and
\* delete requests.  While a delete request is in progress, and once the
\* campaign is deleted (every findUnique answers 'Campagne non trouvée'),
\* nothing else runs.
AdminLauncher == "L1"

\* No delete request is in progress and the campaign row is still there.
CampaignPresent == dpc = "idle" /\ ~deleted

AdminNext ==
  \/ CampaignPresent /\ SchedulerTick(AdminLauncher)
  \/ CampaignPresent /\ LaunchRead(AdminLauncher)
  \/ CampaignPresent /\ CreateMessages(AdminLauncher)
  \/ CampaignPresent /\ SetRunning(AdminLauncher)
  \/ CampaignPresent /\ SendOne(AdminLauncher)
  \/ CampaignPresent /\ StatsRead(AdminLauncher)
  \/ CampaignPresent /\ StatsWrite(AdminLauncher)
  \/ CampaignPresent /\ CountTotal(AdminLauncher)
  \/ CampaignPresent /\ CountProcessed(AdminLauncher)
  \/ CampaignPresent /\ SetCompleted(AdminLauncher)
  \/ CampaignPresent /\ CancelRead
  \/ CampaignPresent /\ CancelWrite
  \/ CampaignPresent /\ EditRead
  \/ CampaignPresent /\ EditWrite
  \/ DeleteRead
  \/ DeleteMessages
  \/ DeleteCampaign

SpecAdmin == Init /\ [][AdminNext]_vars

\* Queue mode: launches (manual and scheduled) and the queue's worker.
QueueNext ==
  \/ \E p \in Launchers : SchedulerTick(p)
  \/ \E p \in Launchers : LaunchRead(p)
  \/ \E p \in Launchers : CreateMessages(p)
  \/ \E p \in Launchers : SetRunningQueue(p)
  \/ \E p \in Launchers : EnqueueBatches(p)
  \/ \E j \in DOMAIN jobs : JobSend(j)
  \/ \E j \in DOMAIN jobs : JobStats(j)
  \/ \E j \in DOMAIN jobs : JobCompletionCheck(j)

SpecQueue == Init /\ [][QueueNext]_vars

\* The queue path with statistics updates that may throw: one launcher, the
\* workers and the queue's retries.
QueueRetryNext ==
  \/ LaunchRead(AdminLauncher)
  \/ CreateMessages(AdminLauncher)
  \/ SetRunningQueue(AdminLauncher)
  \/ EnqueueBatches(AdminLauncher)
  \/ \E j \in DOMAIN jobs : JobSend(j)
  \/ \E j \in DOMAIN jobs : JobStats(j)
  \/ \E j \in DOMAIN jobs : JobCompletionCheck(j)
  \/ \E j \in DOMAIN jobs : JobStatsThrows(j)

SpecQueueRetry == Init /\ [][QueueRetryNext]_vars

\* Reconciliation: status callbacks for the messages of a dispatched campaign.
ReconcileNext ==
  \/ \E h \in Handlers : CallbackRead(h)
  \/ \E h \in Handlers : CallbackUpdateMessage(h)
  \/ \E h \in Handlers : CallbackUpdateCampaign(h)

SpecReconcile == ReconcileInit /\ [][ReconcileNext]_vars

\* Delivery order: the callbacks of `oseq` reach one freshly SENT message one
\* after the other, each handled to its end by the handler of
\* routes/chatbot.js before the next one is read.
RECURSIVE SeqsUpTo(_)
SeqsUpTo(n) ==
  IF n = 0 THEN {<<>>}
  ELSE LET shorter == SeqsUpTo(n - 1)
       IN shorter \cup {Append(q, w) : q \in {x \in shorter : Len(x) = n - 1},
                                        w \in WaStatuses}

ApplyCallback(current, w) ==
  IF StatusAccepted("chatbot", current, statusMap[w]) THEN statusMap[w] ELSE current

OrderInit ==
  /\ DispatchedInit
  /\ oseq \in SeqsUpTo(MaxOrderLen)
  /\ opos = 0
  /\ ostatus = "SENT"

OrderApply ==
  /\ opos < Len(oseq)
  /\ ostatus' = ApplyCallback(ostatus, oseq[opos + 1])
  /\ opos' = opos + 1
  /\ UNCHANGED <<campaign, messages, nextExt, lvars, avars, hvars, oseq, xvars>>

OrderNext == OrderApply

SpecOrder == OrderInit /\ [][OrderNext]_vars

\* Click tracking after a dispatch, the requests served one after the other.
ClickInit ==
  /\ DispatchedInit
  /\ oseq = <<>>
  /\ opos = 0
  /\ ostatus = "SENT"

NoClickInProgress == \A k \in ClickHandlers : kpc[k] = "idle"

ClickNext ==
  \/ \E k \in ClickHandlers : NoClickInProgress /\ ClickRead(k)
  \/ \E k \in ClickHandlers : ClickUpdateMessage(k)
  \/ \E k \in ClickHandlers : ClickUpdateCampaign(k)

SpecClick == ClickInit /\ [][ClickNext]_vars

\* The same, with database updates that may fail.
ClickFaultNext ==
  \/ ClickNext
  \/ \E k \in ClickHandlers : ClickUpdateThrows(k)

SpecClickFault == ClickInit /\ [][ClickFaultNext]_vars

\* Click requests served concurrently: a request is read while another one
\* is between its findFirst and its updates.
ClickRaceNext ==
  \/ \E k \in ClickHandlers : ClickRead(k)
  \/ \E k \in ClickHandlers : ClickUpdateMessage(k)
  \/ \E k \in ClickHandlers : ClickUpdateCampaign(k)

SpecClickRace == ClickInit /\ [][ClickRaceNext]_vars

\* The criteria compiler applied to one criteria tree over the contact
\* table, by either of its two entry points.
CriteriaInit ==
  /\ NothingDone
  /\ contactStore \in StoreInputs
  /\ sreq \in CriteriaInputs
  /\ campaign = [createCampaign(FALSE, "segAll") EXCEPT
                   !.segmentId = NoSegmentId, !.inlineCriteria = sreq]
  /\ oseq = <<>>
  /\ opos = 0
  /\ ostatus = "SENT"

\* No request has been made yet
NothingAsked ==
  /\ sres = NoResponse
  /\ lres[AdminLauncher] = "none"
  /\ lpc[AdminLauncher] = "idle"

CriteriaNext ==
  \/ NothingAsked /\ EvaluateCount
  \/ NothingAsked /\ EvaluateContacts
  \/ NothingAsked /\ Preview(sreq)
  \/ NothingAsked /\ SegmentCreate("segGone", sreq)
  \/ NothingAsked /\ SegmentUpdate("segAll", sreq)
  \/ NothingAsked /\ LaunchResolve(AdminLauncher)
  \/ CreateMessages(AdminLauncher)
  \/ SetRunning(AdminLauncher)

SpecCriteria == CriteriaInit /\ [][CriteriaNext]_vars

\* The segment routes, the segment created from chat sessions and the
\* campaign's choice of a segment, interleaved.  The criteria of the
\* bodies: none, the example, a tree made of one nested group only, a rule
\* on a field that is not allowed, and an OR of the segment's tag with a
\* city; the bodies of PUT may carry no criteria at all.
MaxQueries == 3

GroupsOnlyTree ==
  Tree("AND", <<>>,
       <<Tree("AND", <<[field |-> "city", op |-> "eq", value |-> Text("Libreville")]>>,
              <<>>)>>)

SegmentCriteria ==
  {NullCriteria,
   Tree("AND", <<[field |-> "city", op |-> "eq", value |-> Text("Libreville")],
                 [field |-> "engagementScore", op |-> "gte", value |-> Number(50)]>>,
        <<>>),
   GroupsOnlyTree,
   Tree("AND", <<BadFieldRule>>, <<>>),
   Tree("OR", <<TagRule(SegTag),
                [field |-> "city", op |-> "in", value |-> Text("Oyem")]>>, <<>>)}

ContactIdSets == {{}, {3, 4}}

SegmentInit ==
  /\ NothingDone
  /\ contactStore = SeedContacts
  /\ sreq = NullCriteria
  /\ campaign = createCampaign(FALSE, "segEmpty")
  /\ oseq = <<>> /\ opos = 0 /\ ostatus = "SENT"

QueriesLeft == queries < MaxQueries

SegmentNext ==
  \/ \E criteria \in SegmentCriteria :
       QueriesLeft /\ SegmentCreate("segGone", criteria)
  \/ \E criteria \in SegmentCriteria \cup {UndefinedCriteria} :
       QueriesLeft /\ SegmentUpdate("segAll", criteria)
  \/ \E s \in {"segAll", "segGone"}, contactIds \in ContactIdSets :
       QueriesLeft /\ AddContacts(s, contactIds)
  \/ \E cids \in ContactIdSets :
       SegmentFromSessions("segGone", "Top Gold", cids)
  \/ \E s \in SegmentIds : SegmentDeleteRead(s)
  \/ SegmentDeleteWrite
  \/ \E s \in SegmentIds \cup {NoSegmentId} : CampaignSetSegment(s)

SpecSegment == SegmentInit /\ [][SegmentNext]_vars

\* The webhook during and after a dispatch: the first launch of a DRAFT
\* campaign and its direct-send run, and one webhook request whose status
\* events are handled one after the other.
WebhookInit ==
  /\ NothingDone
  /\ contactStore = SeedContacts
  /\ sreq = NullCriteria
  /\ campaign = createCampaign(FALSE, "segAll")
  /\ oseq = <<>> /\ opos = 0 /\ ostatus = "SENT"

NeverLaunched == messages = <<>>
NoWebhookYet == wack = 0

WebhookNext ==
  \/ NeverLaunched /\ LaunchRead(AdminLauncher)
  \/ CreateMessages(AdminLauncher)
  \/ SetRunning(AdminLauncher)
  \/ SendOne(AdminLauncher)
  \/ StatsRead(AdminLauncher)
  \/ StatsWrite(AdminLauncher)
  \/ CountTotal(AdminLauncher)
  \/ CountProcessed(AdminLauncher)
  \/ SetCompleted(AdminLauncher)
  \/ NoWebhookYet /\ WebhookReceive
  \/ WebhookHandleStatus

SpecWebhook == WebhookInit /\ [][WebhookNext]_vars

\* Direct-send dispatch with the gateway calls in flight: launches by the
\* two launchers and their runs.
GatewayNext ==
  \/ \E p \in Launchers : LaunchRead(p)
  \/ \E p \in Launchers : CreateMessages(p)
  \/ \E p \in Launchers : SetRunning(p)
  \/ \E p \in Launchers : SendCall(p)
  \/ \E p \in Launchers : SendReturn(p)
  \/ \E p \in Launchers : StatsRead(p)
  \/ \E p \in Launchers : StatsWrite(p)
  \/ \E p \in Launchers : CountTotal(p)
  \/ \E p \in Launchers : CountProcessed(p)
  \/ \E p \in Launchers : SetCompleted(p)

SpecGateway == Init /\ [][GatewayNext]_vars

\* Dispatch and reconciliation together: a campaign whose first run is over
\* is launched again by one launcher while one handler takes the status
\* callbacks of the gateway; one callback is followed.
RedispatchHandler == "H1"
NoCallbackYet == ncb = 0

RedispatchNext ==
  \/ LaunchRead(AdminLauncher)
  \/ CreateMessages(AdminLauncher)
  \/ SetRunning(AdminLauncher)
  \/ SendOne(AdminLauncher)
  \/ StatsRead(AdminLauncher)
  \/ StatsWrite(AdminLauncher)
  \/ CountTotal(AdminLauncher)
  \/ CountProcessed(AdminLauncher)
  \/ SetCompleted(AdminLauncher)
  \/ NoCallbackYet /\ CallbackRead(RedispatchHandler)
  \/ CallbackUpdateMessage(RedispatchHandler)
  \/ CallbackUpdateCampaign(RedispatchHandler)

SpecRedispatch == ReconcileInit /\ [][RedispatchNext]_vars

\* Target resolution: a campaign carrying any combination of a segment
\* reference, inline criteria and a legacy category is launched once, after
\* at most one update of the segment's criteria.
\* A tree that asks for the contacts targeting must leave out
WideningTree ==
  Tree("OR", <<[field |-> "status", op |-> "eq", value |-> Text("BLOCKED")],
               [field |-> "optedIn", op |-> "eq", value |-> Bool(FALSE)]>>,
       <<Tree("AND", <<[field |-> "city", op |-> "eq", value |-> Text("Oyem")]>>,
              <<>>)>>)

TargetTrees ==
  {Tree("AND", <<[field |-> "city", op |-> "eq", value |-> Text("Libreville")]>>,
        <<>>),
   Tree("OR", <<[field |-> "city", op |-> "in", value |-> Text("Oyem")],
                [field |-> "engagementScore", op |-> "gte", value |-> Number(50)]>>,
        <<>>),
   WideningTree}
LegacySegments == {NoLegacySegment, "ALL", "COTISANT"}

TargetInit ==
  /\ NothingDone
  /\ contactStore \in StoreInputs
  /\ sreq = NullCriteria
  /\ \E segmentId \in {NoSegmentId, "segAll", "segEmpty"},
        inlineCriteria \in {NullCriteria} \cup TargetTrees,
        segment \in LegacySegments :
       campaign = [createCampaign(FALSE, segmentId) EXCEPT
                     !.inlineCriteria = inlineCriteria,
                     !.legacySegment = segment]
  /\ oseq = <<>>
  /\ opos = 0
  /\ ostatus = "SENT"

NotLaunchedYet ==
  /\ lres[AdminLauncher] = "none"
  /\ lpc[AdminLauncher] = "idle"
  /\ queries <= 1

TargetNext ==
  \/ \E criteria \in TargetTrees :
       NotLaunchedYet /\ queries = 0 /\ SegmentUpdate("segAll", criteria)
  \/ NotLaunchedYet /\ LaunchResolve(AdminLauncher)
  \/ CreateMessages(AdminLauncher)
  \/ SetRunning(AdminLauncher)

SpecTarget == TargetInit /\ [][TargetNext]_vars

\* ----------------------------------------------- scheduler (server.js)
\* Several campaigns and the 30 s tick: findMany of the due campaigns, then
\* launchCampaign on each in turn inside its own try / catch.  A campaign is
\* kept as its status, its scheduledAt and the number of contacts its
\* targeting resolves to; `now` is the clock.
MaxCampaigns == 2
MaxTime == 2

CampaignRow(scheduledAt, recipients) ==
  [status |-> IF scheduledAt # NoTimestamp THEN "SCHEDULED" ELSE "DRAFT",
   scheduledAt |-> scheduledAt, recipients |-> recipients]

\* POST /api/campaigns
CampaignCreate ==
  /\ Len(campaigns) < MaxCampaigns
  /\ \E scheduledAt \in {NoTimestamp} \cup (1..MaxTime), recipients \in {0, 1} :
       campaigns' = Append(campaigns, CampaignRow(scheduledAt, recipients))
  /\ UNCHANGED <<campaign, messages, nextExt, lvars, avars, hvars, ovars, nextToken,
                 dvars, jobs, kvars, svars, wvars, scheduledCampaigns, tpos>>

ClockTick ==
  /\ now < MaxTime
  /\ now' = now + 1
  /\ UNCHANGED <<campaign, messages, nextExt, lvars, avars, hvars, ovars, nextToken,
                 dvars, jobs, kpc, ktok, krow, kbtn, kmsg, kres, svars, wvars, tvars>>

\* where: {status: 'SCHEDULED', scheduledAt: {lte: now}}
Due(table, time) ==
  {c \in DOMAIN table :
     table[c].status = "SCHEDULED" /\ table[c].scheduledAt <= time}

SchedulerFind ==
  /\ tpos = 0
  /\ scheduledCampaigns' = SetToSeq(Due(campaigns, now))
  /\ tpos' = IF Due(campaigns, now) = {} THEN 0 ELSE 1
  /\ UNCHANGED <<campaign, messages, nextExt, lvars, avars, hvars, ovars, nextToken,
                 dvars, jobs, kvars, svars, wvars, campaigns>>

\* What launchCampaign throws on a campaign row, "none" when it goes through
LaunchError(row) ==
  IF LaunchRejected(row.status) THEN "already_running"
  ELSE IF row.recipients = 0 THEN "no_contacts"
  ELSE "none"

\* One turn of the loop: launchCampaign(campaign.id), its error caught
SchedulerLaunch ==
  /\ tpos > 0
  /\ LET c == scheduledCampaigns[tpos]
     IN campaigns' = IF LaunchError(campaigns[c]) = "none"
                       THEN [campaigns EXCEPT ![c].status = "RUNNING"]
                       ELSE campaigns
  /\ IF tpos = Len(scheduledCampaigns)
       THEN tpos' = 0 /\ scheduledCampaigns' = <<>>
       ELSE tpos' = tpos + 1 /\ UNCHANGED scheduledCampaigns
  /\ UNCHANGED <<campaign, messages, nextExt, lvars, avars, hvars, ovars, nextToken,
                 dvars, jobs, kvars, svars, wvars>>

\* PUT /api/campaigns/:id with scheduledAt in the body
CampaignEdit(c, scheduledAt) ==
  /\ c \in DOMAIN campaigns
  /\ EditAllowed(campaigns[c].status)
  /\ campaigns' = [campaigns EXCEPT
                     ![c].status = IF scheduledAt # NoTimestamp
                                     THEN "SCHEDULED" ELSE "DRAFT",
                     ![c].scheduledAt = scheduledAt]
  /\ UNCHANGED <<campaign, messages, nextExt, lvars, avars, hvars, ovars, nextToken,
                 dvars, jobs, kvars, svars, wvars, scheduledCampaigns, tpos>>

\* The run of a launched campaign comes to its end
DispatchEnds(c) ==
  /\ c \in DOMAIN campaigns
  /\ campaigns[c].status = "RUNNING"
  /\ campaigns' = [campaigns EXCEPT ![c].status = "COMPLETED"]
  /\ UNCHANGED <<campaign, messages, nextExt, lvars, avars, hvars, ovars, nextToken,
                 dvars, jobs, kvars, svars, wvars, scheduledCampaigns, tpos>>

SchedulerNext ==
  \/ CampaignCreate
  \/ ClockTick
  \/ SchedulerFind
  \/ SchedulerLaunch
  \/ \E c \in 1..MaxCampaigns, scheduledAt \in {NoTimestamp} \cup (1..MaxTime) :
       CampaignEdit(c, scheduledAt)
  \/ \E c \in 1..MaxCampaigns : DispatchEnds(c)

SpecScheduler == Init /\ [][SchedulerNext]_vars

\* ------------------------------- handleIncomingMessage (routes/chatbot.js)
\* The text bodies the contacts send, and message.text.body.trim()
\* .toLowerCase() of each
InboundTexts == {"STOP", " Arret ", "START", "ok", "Bonjour"}
textLower(body) ==
  CASE body = "STOP" -> "stop"
    [] body = " Arret " -> "arret"
    [] body = "START" -> "start"
    [] body = "ok" -> "ok"
    [] OTHER -> "bonjour"

OptOutWords == {"stop", "arret", "arreter", "desinscrire", "unsubscribe"}
OptInWords == {"start", "ok", "inscrire"}

\* The sender whose phone no contact has
UnknownSender == Len(SeedContacts) + 1

\* The contact row after the handler took a text of that contact
handleIncomingMessage(dbContact, body) ==
  IF textLower(body) \in OptOutWords
    THEN [dbContact EXCEPT !.status = "UNSUBSCRIBED", !.optedIn = FALSE]
  ELSE IF textLower(body) \in OptInWords /\ dbContact.status = "UNSUBSCRIBED"
    THEN [dbContact EXCEPT !.status = "ACTIVE", !.optedIn = TRUE]
  ELSE dbContact

\* One inbound text message: the contact is looked up by phone and created
\* (opted in, ACTIVE by default) when there is none, then the opt-out and
\* opt-in words are handled.
InboundMessage(sender, body) ==
  /\ ncb < MaxCallbacks
  /\ ncb' = ncb + 1
  /\ sender \in DOMAIN contactStore \cup {UnknownSender}
  /\ LET store == IF sender \in DOMAIN contactStore THEN contactStore
                  ELSE Append(contactStore, Contact("", 0, "ACTIVE", TRUE))
     IN contactStore' =
          [store EXCEPT ![sender] = handleIncomingMessage(@, body)]
  /\ UNCHANGED <<campaign, messages, nextExt, lvars, avars, hpc, hroute, hrow, hcur,
                 hst, entered, credited, ovars, nextToken, dvars, jobs, kvars,
                 segments, sreq, sres, spc, queries, wvars, tvars>>

InboundInit ==
  /\ NothingDone
  /\ contactStore = SeedContacts
  /\ sreq = NullCriteria
  /\ campaign = createCampaign(FALSE, "segAll")
  /\ oseq = <<>>
  /\ opos = 0
  /\ ostatus = "SENT"

InboundNext ==
  \/ \E sender \in 1..UnknownSender, body \in InboundTexts :
       NotLaunchedYet /\ InboundMessage(sender, body)
  \/ NotLaunchedYet /\ LaunchResolve(AdminLauncher)
  \/ CreateMessages(AdminLauncher)
  \/ SetRunning(AdminLauncher)

SpecInbound == InboundInit /\ [][InboundNext]_vars



\* ================================================================ claims
Counters == {"sent", "delivered", "read", "failed"}
TerminalForCallbacks == {"READ", "FAILED"}
Range(q) == {q[i] : i \in DOMAIN q}

\* The step in which handler h writes the message row
WritesMessage(h) == hpc[h] = "updateMessage" /\ hpc'[h] = "updateCampaign"

\* The step in which launcher p runs launchCampaign up to its first write
LaunchCall(p) ==
  /\ lpc[p] \in {"idle", "sched"}
  /\ lpc'[p] # "sched"
  /\ (lpc'[p] # lpc[p] \/ lres'[p] # lres[p])

\* C1: whenever handleStatusUpdate writes a message's status, a status other
\* than FAILED is written only over a status of strictly lower rank, so the
\* rank of a message never decreases through callbacks.
C1_CallbackOnlyRaisesRank ==
  [][\A h \in Handlers :
       (WritesMessage(h) /\ hst[h] # "FAILED")
         => statusOrder[hst[h]] > statusOrder[messages[hrow[h]].status]]_vars

\* C2 (as claimed): after all callbacks of a delivery order were handled, the
\* status is FAILED if a failed callback arrived while the message was in a
\* non-terminal status (neither READ nor FAILED), and otherwise the
\* highest-ranked non-FAILED status received.
RECURSIVE StatusAfter(_, _)
StatusAfter(q, k) ==
  IF k = 0 THEN "SENT" ELSE ApplyCallback(StatusAfter(q, k - 1), q[k])

Highest(S) == CHOOSE s \in S : \A t \in S : statusOrder[t] <= statusOrder[s]

HighestReceived(q) ==
  Highest({"SENT"} \cup {statusMap[w] : w \in Range(q) \ {"failed"}})

FailedWhileNonTerminal(q) ==
  \E k \in DOMAIN q :
    q[k] = "failed" /\ StatusAfter(q, k - 1) \notin TerminalForCallbacks

C3_DuplicateCallbackLeavesCountersUnchanged ==
  [][\A h \in Handlers :
       (hpc[h] = "updateCampaign" /\ hpc'[h] = "idle" /\ hst[h] = hcur[h])
         => campaign' = campaign]_vars

\* C4: two callbacks handled concurrently by routes/chatbot.js for the same
\* message and carrying the same status (one that the rank test guards: sent,
\* delivered or read) are never both at the campaign counter increment, from
\* where the increment is unconditional.
C4_ConcurrentSameStatusIncrementsOnce ==
  \A h1, h2 \in Handlers :
    (/\ h1 # h2
     /\ hroute[h1] = "chatbot" /\ hroute[h2] = "chatbot"
     /\ hpc[h1] = "updateCampaign" /\ hpc[h2] = "updateCampaign"
     /\ hrow[h1] = hrow[h2]
     /\ hst[h1] # "FAILED")
      => hst[h1] # hst[h2]

\* C5: every step leaves each of the campaign's counters sent, delivered,
\* read and failed unchanged or raises it by exactly one.
C5_CountersChangeBySingleIncrements ==
  [][\A k \in Counters :
       campaign'[k] = campaign[k] \/ campaign'[k] = campaign[k] + 1]_vars

\* C6: a launchCampaign call that finds the campaign RUNNING returns the
\* 'already running' error, goes no further, and leaves the campaign row and
\* the message rows as they were.
C6_LaunchOfRunningRejected ==
  [][\A p \in Launchers :
       (LaunchCall(p) /\ campaign.status = "RUNNING")
         => /\ lres'[p] = "already_running"
            /\ lpc'[p] = "idle"
            /\ campaign' = campaign
            /\ messages' = messages]_vars

\* C6 witness: a launch was rejected as already running while the campaign
\* is RUNNING and owns messages.
C6_Witness ==
  \E p \in Launchers :
    /\ lres[p] = "already_running"
    /\ lpc[p] = "idle"
    /\ campaign.status = "RUNNING"
    /\ Len(messages) > 0

\* C7: at most one launch at a time has created its message rows and is
\* still sending.
DispatchRunning(p) == lpc[p] \in {"setRunning", "send", "stats", "statsWrite"}

C7_DispatchRunsNeverOverlap ==
  Cardinality({p \in Launchers : DispatchRunning(p)}) <= 1

\* C8: a launchCampaign call on a campaign that is not RUNNING and whose
\* segment does not exist or resolves to no contact returns an error, goes no
\* further (no row is created, no send is made) and leaves the campaign row,
\* the message rows and the gateway untouched.
TargetResolutionFails(c) ==
  \/ ~SegmentExists(c.segmentId)
  \/ evaluateContacts(c.segmentId) = {}

C8_FailedResolutionChangesNothing ==
  [][\A p \in Launchers :
       (LaunchCall(p) /\ campaign.status # "RUNNING" /\ TargetResolutionFails(campaign))
         => /\ lres'[p] \in {"segment_not_found", "no_contacts"}
            /\ lpc'[p] = "idle"
            /\ campaign' = campaign
            /\ messages' = messages
            /\ nextExt' = nextExt]_vars

\* C8 witness: a scheduled campaign whose segment matches no contact was
\* launched, the launch failed with 'no contacts' and the campaign is still
\* SCHEDULED without any message.
C8_Witness ==
  \E p \in Launchers :
    /\ lres[p] = "no_contacts"
    /\ lpc[p] = "idle"
    /\ campaign.status = "SCHEDULED"
    /\ messages = <<>>

\* C9: once the campaign's status is COMPLETED, no step changes it.
C9_CompletedIsTerminal ==
  [][campaign.status = "COMPLETED" => campaign'.status = "COMPLETED"]_vars

\* C10: a COMPLETED campaign owns no PENDING or QUEUED message: all its
\* messages are SENT, DELIVERED, READ or FAILED.
C10_CompletedOwnsOnlyTerminalMessages ==
  campaign.status = "COMPLETED" =>
    \A r \in Rows : messages[r].status \in ProcessedStatuses

\* C11: a launched campaign that nobody cancelled ends COMPLETED.  In queue
\* mode nothing is left to run once every job of the campaign is done and no
\* launch is in progress, so by then the campaign has to be COMPLETED: every
\* later state has the same status.
QueueDrained ==
  /\ jobs # <<>>
  /\ \A j \in DOMAIN jobs : jobs[j].state = "done"
  /\ \A p \in Launchers : lpc[p] = "idle"

C11_DrainedQueueLeavesCampaignCompleted ==
  QueueDrained => campaign.status = "COMPLETED"

\* C12: the step of a launch that creates its messages appends exactly one
\* PENDING row per resolved contact, in the contacts' order, and nothing
\* else; and when that launch sets the campaign RUNNING, and at each of its
\* gateway sends, every resolved contact already has its row.
CreatesRows(p) == lpc[p] = "create" /\ lpc'[p] = "setRunning"
WritesRunning(p) == lpc[p] = "setRunning" /\ lpc'[p] # "setRunning"
SendsOne(p) == lpc[p] = "send" /\ (lidx'[p] # lidx[p] \/ lpc'[p] # "send")

ContactsHaveRows(p) ==
  \A i \in DOMAIN lcontacts[p] :
    \E r \in Rows : messages[r].contactId = lcontacts[p][i]

C12_RowsCreatedBeforeRunningAndSends ==
  [][\A p \in Launchers :
       /\ CreatesRows(p) =>
            /\ Len(messages') = Len(messages) + Len(lcontacts[p])
            /\ SubSeq(messages', 1, Len(messages)) = messages
            /\ \A i \in DOMAIN lcontacts[p] :
                 /\ messages'[Len(messages) + i].contactId = lcontacts[p][i]
                 /\ messages'[Len(messages) + i].status = "PENDING"
            /\ campaign' = campaign
            /\ nextExt' = nextExt
       /\ (WritesRunning(p) \/ SendsOne(p)) => ContactsHaveRows(p)]_vars

\* C12 witness: a launch has created its three PENDING rows and set the
\* campaign RUNNING, and has not sent anything yet.
C12_Witness ==
  \E p \in Launchers :
    /\ lpc[p] = "send" /\ lidx[p] = 1
    /\ campaign.status = "RUNNING"
    /\ Len(messages) = Cardinality(Contacts)
    /\ \A r \in Rows : messages[r].status = "PENDING"
    /\ nextExt = 1

\* C13: every message row carries a tracking token that is set and that no
\* other row carries, so a token identifies at most one message.
RowsWithToken(t) == {r \in Rows : messages[r].trackingId = t}

JobSent(j) == jobs[j].state \in {"stats", "count", "done"}

OutcomeRecorded(r, succeeded) ==
  IF succeeded
    THEN messages[r].status = "SENT" /\ messages[r].externalId # NoExternalId
    ELSE messages[r].status = "FAILED" /\ messages[r].error # "none"

C14_QueuePathRecordsOutcomes ==
  \A j \in DOMAIN jobs :
    JobSent(j) =>
      \A i \in DOMAIN jobs[j].batch :
        \A r \in Rows :
          messages[r].contactId = jobs[j].batch[i]
            => OutcomeRecorded(r, jobs[j].batch[i] \in jobs[j].succeeded)

\* C15: once a cancel has set the campaign PAUSED, a dispatch run starts no
\* further batch: no send for the first contact of a batch is made while the
\* campaign is PAUSED.
BatchStart(i) == (i - 1) % BatchSize = 0

C15_NoBatchStartsAfterCancel ==
  [][\A p \in Launchers :
       (SendsOne(p) /\ BatchStart(lidx[p])) => campaign.status # "PAUSED"]_vars

\* C16: the write of cancelCampaign changes the campaign's status and nothing
\* else: the counters and the other fields of the campaign and every message
\* row are as before; and a cancelCampaign call that reads the campaign
\* COMPLETED goes no further and changes nothing.
CancelProceeds == apc = "idle" /\ apc' = "cancelWrite"
CancelWrites == apc = "cancelWrite" /\ apc' = "idle"

C16_CancelChangesOnlyStatus ==
  [][/\ CancelWrites =>
          /\ campaign' = [campaign EXCEPT !.status = "PAUSED"]
          /\ messages' = messages
          /\ nextExt' = nextExt
     /\ CancelProceeds =>
          /\ campaign.status # "COMPLETED"
          /\ campaign' = campaign
          /\ messages' = messages]_vars

\* C16 witness: the campaign was cancelled (only cancelCampaign writes
\* PAUSED) while it owned sent messages and its counters were not zero.
C16_Witness ==
  /\ campaign.status = "PAUSED"
  /\ campaign.sent > 0
  /\ \E r \in Rows : messages[r].status = "SENT"
  /\ \E r \in Rows : messages[r].status = "PENDING"

\* C17: an edit or a delete request goes past its status guard only when the
\* campaign is DRAFT, SCHEDULED or PAUSED; in any other status it is rejected
\* and changes nothing.
Editable == {"DRAFT", "SCHEDULED", "PAUSED"}
EditProceeds == apc = "idle" /\ apc' = "editWrite"
DeleteProceeds == dpc = "idle" /\ dpc' # "idle"

C17_EditAndDeleteOnlyWhenEditable ==
  [][(EditProceeds \/ DeleteProceeds) => campaign.status \in Editable]_vars


\* C18: a gateway send changes only the rows of the contact it was for: on
\* a failure they become FAILED with the gateway's error and no external
\* id, on a success SENT with the id the gateway returned; either way the
\* campaign is left alone and the launch moves on to the next contact, and
\* it leaves its send loop only after the last contact of the last batch.
InSendLoop(pc) == pc \in {"send", "stats", "statsWrite"}

RecordedFor(contactId, status, externalId, error) ==
  \A r \in Rows :
    messages'[r] =
      IF messages[r].contactId = contactId
        THEN [messages[r] EXCEPT !.status = status, !.externalId = externalId,
                                 !.error = error]
        ELSE messages[r]

C18_SendFailureRecordedAndDispatchContinues ==
  [][\A p \in Launchers :
       /\ SendsOne(p) =>
            /\ Len(messages') = Len(messages)
            /\ \/ /\ RecordedFor(lcontacts[p][lidx[p]], "FAILED", NoExternalId, "gateway")
                  /\ nextExt' = nextExt
               \/ /\ RecordedFor(lcontacts[p][lidx[p]], "SENT", nextExt, "none")
                  /\ nextExt' = nextExt + 1
            /\ campaign' = campaign
            /\ lcontacts'[p] = lcontacts[p]
            /\ IF LastOfBatch(lidx[p], Len(lcontacts[p]))
                 THEN lpc'[p] = "stats" /\ lidx'[p] = lidx[p]
                 ELSE lpc'[p] = "send" /\ lidx'[p] = lidx[p] + 1
       /\ (InSendLoop(lpc[p]) /\ InSendLoop(lpc'[p])) =>
            /\ lcontacts'[p] = lcontacts[p]
            /\ lidx'[p] \in {lidx[p], lidx[p] + 1}
       /\ (InSendLoop(lpc[p]) /\ ~InSendLoop(lpc'[p])) =>
            /\ lpc'[p] = "countTotal"
            /\ lidx[p] = Len(lcontacts[p])]_vars

\* C18 witness: one launch of three contacts; the first contact's send
\* failed and was recorded, and the second contact of the same batch and
\* the contact of the next batch were sent after it.
C18_Witness ==
  /\ Len(messages) = Cardinality(Contacts)
  /\ messages[1].status = "FAILED"
  /\ messages[1].error = "gateway"
  /\ messages[1].externalId = NoExternalId
  /\ messages[2].status = "SENT"
  /\ messages[2].externalId = 1
  /\ messages[3].status = "SENT"
  /\ messages[3].externalId = 2


\* C19: with click requests served one after the other, a message's click
\* log never holds two entries for one button index; its clickedAt is set
\* as soon as the log has an entry and never changes once set; and the
\* campaign's clicked counter, between requests, equals the number of
\* messages that were clicked at all (one increment per message, whatever
\* the number of buttons and requests).
ClickedRows == {r \in Rows : messages[r].clickedAt # NoTimestamp}

OneEntryPerButton(r) ==
  \A i, j \in DOMAIN messages[r].clickedButtons :
    messages[r].clickedButtons[i].index = messages[r].clickedButtons[j].index
      => i = j

ClickLogConsistent ==
  /\ \A r \in Rows :
       /\ OneEntryPerButton(r)
       /\ (messages[r].clickedButtons # <<>>) <=> (r \in ClickedRows)
  /\ campaign.clicked <= Cardinality(ClickedRows)
  /\ NoClickInProgress => campaign.clicked = Cardinality(ClickedRows)

FirstClickKept ==
  \A r \in Rows :
    r \in ClickedRows => messages'[r].clickedAt = messages[r].clickedAt

C19_ClickRecordedOncePerButtonAndMessage ==
  []ClickLogConsistent /\ [][FirstClickKept]_vars

\* C19 witness: three requests on the first message's token, two of them
\* (one per handler) on button 0 and one on button 1: both buttons are in
\* its log once, and the campaign counts one click.
C19_Witness ==
  /\ NoClickInProgress
  /\ now = MaxClicks + 1
  /\ \A k \in ClickHandlers : krow[k] = 1 /\ kbtn[k] = 0
  /\ Len(messages[1].clickedButtons) = 2
  /\ \A r \in Rows \ {1} : messages[r].clickedButtons = <<>>
  /\ campaign.clicked = 1


\* C20: a click request whose token no message carries is answered at once
\* with a redirect to the fallback URL and changes no message and nothing
\* of the campaign; and when one of the two updates that record a click
\* throws, the request is answered with a redirect to the fallback URL.
UnknownTokenRequest(k) == ClickRead(k) /\ RowsWithToken(ktok'[k]) = {}

C20_UnknownTokenAndFailureRedirectToFallback ==
  [][\A k \in ClickHandlers :
       /\ UnknownTokenRequest(k) =>
            /\ kres'[k] = fallback
            /\ kpc'[k] = "idle"
            /\ messages' = messages
            /\ campaign' = campaign
       /\ ClickUpdateThrows(k) =>
            /\ kres'[k] = fallback
            /\ kpc'[k] = "idle"]_vars

\* C20 witness: one handler has answered an unknown token with the
\* fallback; the other was recording a click on button 0 (whose target is
\* not the fallback) when an update threw, and answered with the fallback.
C20_Witness ==
  /\ NoClickInProgress
  /\ ktok["K1"] = UnknownToken /\ krow["K1"] = 0 /\ kres["K1"] = fallback
  /\ krow["K2"] # 0 /\ kbtn["K2"] = 0 /\ kres["K2"] = fallback
  /\ targetUrl(0) # fallback


\* C21: whichever entry point is handed a criteria tree that holds, at any
\* depth, a rule on a field outside ALLOWED_FIELDS or with an op outside the
\* twelve supported ones (evaluateCount, evaluateContacts, preview, segment
\* create, segment update, launch with that inline criteria), it answers
\* with the compiler's validation error, no contact query is issued, and
\* no segment, message or campaign field changes; each of the twelve ops
\* compiles on an allowed field.
BadRule(rule) == rule.field \notin ALLOWED_FIELDS \/ rule.op \notin SupportedOps

RECURSIVE HasBadRule(_)
HasBadRule(criteria) ==
  /\ criteria.form = "tree"
  /\ \/ \E i \in DOMAIN criteria.rules : BadRule(criteria.rules[i])
     \/ \E i \in DOMAIN criteria.groups : HasBadRule(criteria.groups[i])

C21_BadRuleFailsBeforeAnyQuery ==
  /\ \A op \in SupportedOps :
       buildRuleCondition([field |-> "city", op |-> op, value |-> Text("x")]).kind
         = "cond"
  /\ (HasBadRule(sreq) /\ ~NothingAsked) =>
       /\ queries = 0
       /\ sres.op # "none" => sres.error \in ValidationErrors
       /\ sres.op = "none" => lres[AdminLauncher] \in ValidationErrors
       /\ segments = SeedSegments
       /\ messages = <<>>
       /\ campaign.status = "DRAFT"

\* C21 witness: a segment create whose only bad rule sits two groups deep
\* (every rule above it is valid) was answered with the validation error.
C21_Witness ==
  /\ sres.op = "create"
  /\ sres.error \in ValidationErrors
  /\ sreq.form = "tree"
  /\ \A i \in DOMAIN sreq.rules : ~BadRule(sreq.rules[i])
  /\ Len(sreq.groups) = 1
  /\ \A i \in DOMAIN sreq.groups[1].rules : ~BadRule(sreq.groups[1].rules[i])
  /\ Len(sreq.groups[1].groups) = 1
  /\ HasBadRule(sreq.groups[1].groups[1])

\* ---------------------------------------------------------------- C22
\* A tree with no child: null, neither list present, or both lists empty
\* or absent.
EmptyTree(criteria) ==
  \/ criteria.form = "null"
  \/ criteria.form = "tree" /\ criteria.rules = <<>> /\ criteria.groups = <<>>

\* The contacts a dispatch may reach at all
ActiveOptedIn == {id \in DOMAIN contactStore :
                    contactStore[id].status = "ACTIVE" /\ contactStore[id].optedIn}

\* C22: an empty criteria tree (null, no rules and no groups, or empty
\* lists) compiles to the match-all predicate whatever its operator, and
\* evaluating it returns exactly the contacts that are ACTIVE and opted in
\* (evaluateCount returns their number).
C22_EmptyTreeMatchesActiveOptedIn ==
  /\ \A criteria \in EmptyForms : buildWhereClause(criteria) = MatchAll
  /\ EmptyTree(sreq) =>
       /\ buildWhereClause(sreq) = MatchAll
       /\ sres.op = "evaluateContacts" =>
            sres.error = "none" /\ sres.contacts = ActiveOptedIn
       /\ sres.op = "evaluateCount" =>
            sres.error = "none" /\ sres.count = Cardinality(ActiveOptedIn)

\* evaluateContacts answered a null criteria on the tagged table, where
\* the second contact is BLOCKED and the third opted out.
C22_Witness ==
  /\ sreq = NullCriteria
  /\ contactStore = TaggedContacts
  /\ sres.op = "evaluateContacts"
  /\ sres.contacts = {1, 4, 5}

\* ---------------------------------------------------------------- C23
\* What a well-typed rule says of one contact, read from the rule itself
RuleHolds(c, rule) ==
  LET v == ItemsOf(rule.value)[1]
  IN CASE rule.op = "eq" -> c[rule.field] = v
       [] rule.op = "gte" -> c[rule.field] >= v
       [] rule.op = "in" -> c[rule.field] = v
       [] rule.op = "has" -> v \in c[rule.field]
       [] OTHER -> FALSE

\* A tree every rule of which is a well-typed rule on an allowed field
RECURSIVE ValidTree(_)
ValidTree(criteria) ==
  \/ criteria.form = "null"
  \/ /\ criteria.form = "tree"
     /\ \A i \in DOMAIN criteria.rules : criteria.rules[i] \in ValidRules
     /\ \A i \in DOMAIN criteria.groups : ValidTree(criteria.groups[i])

\* The node's own operator: OR when it says so in either case, AND
\* otherwise and when it names none
NodeIsOr(criteria) ==
  "operator" \notin criteria.absent /\ criteria.operator \in {"OR", "or"}

\* Recursive evaluation of a tree on one contact: a node without children
\* holds; an AND node holds when all its rules and groups hold, an OR node
\* when at least one does.
RECURSIVE TreeHolds(_, _)
TreeHolds(c, criteria) ==
  IF criteria.form = "null" THEN TRUE
  ELSE LET children ==
             [i \in DOMAIN criteria.rules |-> RuleHolds(c, criteria.rules[i])]
             \o [i \in DOMAIN criteria.groups |-> TreeHolds(c, criteria.groups[i])]
       IN IF Len(children) = 0 THEN TRUE
          ELSE IF NodeIsOr(criteria) THEN \E i \in DOMAIN children : children[i]
          ELSE \A i \in DOMAIN children : children[i]

\* The example of the specification
ExampleTree ==
  Tree("AND", <<[field |-> "city", op |-> "eq", value |-> Text("Libreville")],
                [field |-> "engagementScore", op |-> "gte", value |-> Number(50)]>>,
       <<>>)

\* C23: for every valid criteria tree and every contact table, the
\* contacts evaluateContacts resolves are exactly the ACTIVE opted-in
\* contacts on which the tree holds under recursive evaluation, each node
\* combining its rules and groups with its own operator; the example AND[city
\* eq Libreville, engagementScore gte 50] resolves to the first contact only.
C23_ResolvedContactsAreThoseTheTreeHolds ==
  /\ findMany(SeedContacts, evaluateWhere(buildWhereClause(ExampleTree))) = {1}
  /\ (sres.op = "evaluateContacts" /\ ValidTree(sreq)) =>
       /\ sres.error = "none"
       /\ sres.contacts =
            {id \in ActiveOptedIn : TreeHolds(contactStore[id], sreq)}

\* evaluateContacts answered an OR node holding a rule and an AND group of
\* two rules with the contacts that satisfy one of the two.
C23_Witness ==
  /\ sres.op = "evaluateContacts"
  /\ contactStore = SeedContacts
  /\ sreq.form = "tree"
  /\ ValidTree(sreq)
  /\ NodeIsOr(sreq)
  /\ Len(sreq.rules) = 1 /\ Len(sreq.groups) = 1
  /\ ~NodeIsOr(sreq.groups[1]) /\ Len(sreq.groups[1].rules) = 2
  /\ sres.contacts = {1, 3}

\* ---------------------------------------------------------------- C24
\* The contacts evaluateContacts returns for the criteria of the request
\* on the contact table as it is
Resolved == findMany(contactStore, evaluateWhere(buildWhereClause(sreq)))

\* The launch of the campaign targeted with the criteria of the request
\* has created its message rows
RowsCreated ==
  /\ campaign.segmentId = NoSegmentId
  /\ campaign.inlineCriteria = sreq
  /\ lpc[AdminLauncher] \in {"setRunning", "send"}

\* C24: preview and dispatch never diverge: for one criteria tree and one
\* state of the contact table, the contactCount preview reports, the number
\* of contacts evaluateContacts returns and the number of message rows a
\* launch targeted with that criteria creates are the same; a launch that
\* resolves nobody creates no row.
C24_PreviewAndDispatchAgree ==
  /\ (sres.op = "preview" /\ sres.status = 200) =>
       /\ sres.count = Cardinality(Resolved)
       /\ sres.contacts = Resolved
  /\ (sres.op = "evaluateContacts" /\ sres.error = "none") =>
       sres.contacts = Resolved
  /\ (sres.op = "evaluateCount" /\ sres.error = "none") =>
       sres.count = Cardinality(Resolved)
  /\ RowsCreated =>
       /\ Len(messages) = Cardinality(Resolved)
       /\ {messages[i].contactId : i \in DOMAIN messages} = Resolved
  /\ lres[AdminLauncher] = "no_contacts" =>
       Resolved = {} /\ messages = <<>>

\* A launch targeted with a tree of two rules created one row for the
\* only contact of the table that satisfies both.
C24_Witness ==
  /\ RowsCreated
  /\ sreq = ExampleTree
  /\ contactStore = SeedContacts
  /\ Len(messages) = 1
  /\ messages[1].contactId = 1

\* Preview answered the same tree on the same table with a count of one.
C24_PreviewWitness ==
  /\ sres.op = "preview" /\ sres.status = 200
  /\ sreq = ExampleTree
  /\ contactStore = SeedContacts
  /\ sres.count = 1

\* ---------------------------------------------------------------- C25
\* The criteria of a segment row compiles
Compiles(criteria) == buildWhereClause(criteria).kind # "throw"

EverySegmentCompiles ==
  \A s \in SegmentIds : segments[s].exists => Compiles(segments[s].criteria)

\* A create or an update whose criteria does not compile is answered with
\* the compiler's error (an update of a missing row with 404) and writes no
\* segment
BadCriteriaRejected ==
  \A criteria \in SegmentCriteria :
    (/\ criteria.form = "tree"
     /\ ~Compiles(criteria)
     /\ SegmentCreate("segGone", criteria) \/ SegmentUpdate("segAll", criteria))
    => /\ segments' = segments
       /\ \/ sres'.status = 500 /\ sres'.error \in ValidationErrors
          \/ sres'.status = 404 /\ ~segments["segAll"].exists

\* C25: the criteria of every persisted segment compiles under the
\* criteria compiler: a create or update whose criteria fails compilation is
\* rejected and leaves the segment table unchanged, and add-contacts and
\* the creation from chat sessions store a tree that compiles.
C25_PersistedCriteriaCompile ==
  []EverySegmentCompiles /\ [][BadCriteriaRejected]_vars

\* An update with a rule on a field that is not allowed was rejected
\* after add-contacts had made one segment static and a second segment had
\* been created from chat sessions.
C25_Witness ==
  /\ sres.op = "update"
  /\ sres.error \in ValidationErrors
  /\ segments["segAll"].type = "STATIC"
  /\ segments["segAll"].criteria = newCriteria("seg_vip")
  /\ segments["segGone"].exists
  /\ segments["segGone"].criteria = newCriteria("seg_top_gold")

\* ---------------------------------------------------------------- C27
\* The contacts a criteria resolves on a contact table
ResolvedIn(store, criteria) ==
  findMany(store, evaluateWhere(buildWhereClause(criteria)))

\* add-contacts answers 200 on a DYNAMIC segment
ConvertsToStatic(s, contactIds) ==
  /\ segments[s].exists
  /\ segments[s].type = "DYNAMIC"
  /\ contactIds # {}
  /\ AddContacts(s, contactIds)

\* C27: static conversion does not drop members: after add-contacts on a
\* DYNAMIC segment the criteria is the single rule `tags has seg_<name>`,
\* the type is STATIC, and the segment resolves every contact it resolved
\* just before the call, whatever the prior tree, plus every added contact
\* that is ACTIVE and opted in.
C27_StaticConversionKeepsMembers ==
  [][\A s \in SegmentIds, contactIds \in ContactIdSets :
       ConvertsToStatic(s, contactIds) =>
         /\ segments'[s].criteria = newCriteria(tagName(segments[s].name))
         /\ segments'[s].type = "STATIC"
         /\ ResolvedIn(contactStore, segments[s].criteria)
              \subseteq ResolvedIn(contactStore', segments'[s].criteria)
         /\ {id \in contactIds : contactStore[id].status = "ACTIVE"
                                   /\ contactStore[id].optedIn}
              \subseteq ResolvedIn(contactStore', segments'[s].criteria)]_vars

\* ---------------------------------------------------------------- C26
\* No campaign references a segment that has no row
NoDanglingSegmentReference ==
  (~deleted /\ campaign.segmentId # NoSegmentId) => segments[campaign.segmentId].exists

\* A segment a campaign references is not removed
ReferencedSegmentRemains ==
  \A s \in SegmentIds :
    (segments[s].exists /\ CampaignsOf(s) > 0) => segments'[s].exists

\* C26: deleting a segment that at least one campaign references is
\* rejected and the segment remains, so that after any sequence of segment
\* deletes and campaign edits no campaign references a segment that no
\* longer exists.
C26_ReferencedSegmentIsNotDeleted ==
  []NoDanglingSegmentReference /\ [][ReferencedSegmentRemains]_vars

\* ---------------------------------------------------------------- C30
\* The writes of a launch request and of an edit request
LaunchOrEditWrites == (\E p \in Launchers : SetRunning(p)) \/ EditWrite

\* C30: a PAUSED campaign does not change status by itself: a step that
\* takes the campaign out of PAUSED is the write of a launch or of an edit
\* request, never the end of a dispatch loop that was running when the
\* campaign was cancelled.
C30_PausedChangesOnlyOnRequest ==
  [][(campaign.status = "PAUSED" /\ campaign'.status # "PAUSED")
       => LaunchOrEditWrites]_vars

\* ---------------------------------------------------------------- C28
\* A status callback the handler has to drop: not an object, without an
\* id, with a status it does not know, or with an id no message carries
ToBeDropped(status) ==
  \/ status.shape = "null"
  \/ status.id = NoExternalId
  \/ status.status \notin WaStatuses
  \/ RowsWithExternalId(status.id) = {}

\* C28: webhook processing never fails the callback: 200 is answered
\* before anything is processed, and a status callback that is malformed,
\* carries an unknown status or an external id no message has is dropped:
\* no message and no campaign field changes, and the handler goes on to the
\* next status event of the payload.
AcknowledgedFirst == wevents # <<>> => wack = 200

DroppedChangesNothing ==
  (WebhookHandleStatus /\ ToBeDropped(wevents[wpos + 1]))
    => /\ messages' = messages
       /\ campaign' = campaign
       /\ wpos' = wpos + 1

C28_BadCallbackIsDropped ==
  []AcknowledgedFirst /\ [][DroppedChangesNothing]_vars

\* ---------------------------------------------------------------- C29
\* The gateway send calls of the campaign's dispatch that are in flight
InFlight == Cardinality({p \in Launchers : lpc[p] = "call"})

\* The calls processDirectSend makes at a time: each send is awaited before
\* the next one is made.
DirectConcurrency == 1

\* C29: during a campaign's dispatch in the direct-send path, the number
\* of gateway send calls in flight at the same time never exceeds the
\* concurrency of the path.
C29_InFlightCallsBounded == InFlight <= DirectConcurrency

\* ---------------------------------------------------------------- C31
\* The write of the dispatcher after a send attempt takes a message down
\* the order PENDING < QUEUED < SENT < DELIVERED < READ
Progression == {"PENDING", "QUEUED", "SENT", "DELIVERED", "READ"}
Lowered(before, after) ==
  /\ before \in Progression
  /\ after \in Progression
  /\ statusOrder[after] < statusOrder[before]

\* C31: the dispatcher's write of SENT or FAILED after a send attempt
\* never lowers the rank of a message, the messages of the same campaign and
\* contact that already reached DELIVERED or READ included.
C31_DispatcherNeverLowersRank ==
  [][\A p \in Launchers :
       SendOne(p) =>
         \A r \in Rows : ~Lowered(messages[r].status, messages'[r].status)]_vars

\* ---------------------------------------------------------------- C32
\* The targets by priority, from the recursive evaluation of the trees: the
\* segment's criteria when the campaign has a segment reference, else its
\* inline criteria, else its legacy category (every ACTIVE opted-in contact
\* when the category is ALL or absent)
TargetsByPriority ==
  IF campaign.segmentId # NoSegmentId
    THEN {id \in ActiveOptedIn :
            TreeHolds(contactStore[id], segments[campaign.segmentId].criteria)}
  ELSE IF campaign.inlineCriteria # NullCriteria
    THEN {id \in ActiveOptedIn :
            TreeHolds(contactStore[id], campaign.inlineCriteria)}
  ELSE {id \in ActiveOptedIn :
          \/ campaign.legacySegment \in {NoLegacySegment, "ALL"}
          \/ contactStore[id].category = campaign.legacySegment}

\* C32: the targets of a launch are resolved by priority (segment
\* reference, then inline criteria, then legacy category), and a
\* lower-priority targeting field present on the same campaign never
\* influences the result: the contacts a launch goes on with are those the
\* highest-priority field selects, and the launch finds no recipient exactly
\* when that field selects none.
C32_TargetsResolvedByPriority ==
  /\ lpc[AdminLauncher] # "idle" =>
       lcontacts[AdminLauncher] = SetToSeq(TargetsByPriority)
  /\ lres[AdminLauncher] = "no_contacts" => TargetsByPriority = {}
  /\ lres[AdminLauncher] \in {"none", "no_contacts", "ok"}

\* A launch went on with the contacts of the segment although the campaign
\* also carries inline criteria and a legacy category that select others.
C32_Witness ==
  /\ lpc[AdminLauncher] = "create"
  /\ campaign.segmentId = "segAll"
  /\ campaign.inlineCriteria # NullCriteria
  /\ campaign.legacySegment = "COTISANT"
  /\ LET got == {lcontacts[AdminLauncher][i] : i \in DOMAIN lcontacts[AdminLauncher]}
     IN /\ got # ContactsOf(buildWhereClause(campaign.inlineCriteria))
        /\ got # findMany(contactStore, legacyWhere(campaign))

\* ---------------------------------------------------------------- C33
\* C33: the only transition into PAUSED is from RUNNING through an explicit
\* cancel: a campaign that becomes PAUSED was RUNNING, and the step is the
\* write of cancelCampaign; a cancel on a DRAFT, SCHEDULED or PAUSED campaign
\* does not make a PAUSED campaign of it.
C33_PausedOnlyFromRunning ==
  [][(campaign.status # "PAUSED" /\ campaign'.status = "PAUSED") =>
       (campaign.status = "RUNNING" /\ CancelWrites)]_vars

\* ---------------------------------------------------------------- C34
\* A handler takes up a callback: it found the message and goes on to write
AcceptsCallback(h) == hpc[h] = "idle" /\ hpc'[h] = "updateMessage"

\* C34: FAILED is absorbing: a callback that finds the message FAILED is
\* never taken up (so it changes neither the status nor a counter of the
\* campaign), a failed callback is taken up only on a message that is neither
\* READ nor FAILED, and no write of a handler changes the status of a message
\* that is FAILED.
C34_FailedIsAbsorbing ==
  [][\A h \in Handlers :
       /\ AcceptsCallback(h) =>
            /\ hcur'[h] # "FAILED"
            /\ hst'[h] = "FAILED" => hcur'[h] # "READ"
       /\ (WritesMessage(h) /\ messages[hrow[h]].status = "FAILED") =>
            messages'[hrow[h]].status = "FAILED"]_vars

\* ---------------------------------------------------------------- C35
\* One log entry per button, and no more counted clicks than clicked messages
ClickLogBounded ==
  /\ \A r \in Rows : OneEntryPerButton(r)
  /\ campaign.clicked <= Cardinality(ClickedRows)

\* The button indexes in the click log of a message row
ButtonsOf(row) == {row.clickedButtons[i].index : i \in DOMAIN row.clickedButtons}

\* C35: when click requests for the same tracking token are processed
\* concurrently, the click log holds at most one entry per button index, the
\* campaign's clicked counter never exceeds the number of clicked messages
\* (one increment per message), and no step loses a recorded click: a button
\* in the log of a message stays in it.
C35_ConcurrentClicksRecordedOnce ==
  [][/\ ClickLogBounded'
     /\ \A r \in Rows : ButtonsOf(messages[r]) \subseteq ButtonsOf(messages'[r])]_vars


\* ---------------------------------------------------------------- C36
\* The message rows the campaign owns for one contact
RowsOfContact(contactId) == {r \in Rows : messages[r].contactId = contactId}

\* C36: after any sequence of launch, cancel and re-launch operations the
\* campaign owns at most one message per contact: a launch of a campaign
\* that already has message rows creates no second row for a contact.
C36_OneMessagePerContact ==
  \A contactId \in Contacts : Cardinality(RowsOfContact(contactId)) <= 1


\* ---------------------------------------------------------------- C37
\* The scheduler's turn for the campaign at its place in the list
SchedulerTurn(c) == tpos > 0 /\ scheduledCampaigns[tpos] = c /\ tpos' # tpos

\* C37: the scheduler launches only campaigns whose status is SCHEDULED and
\* whose scheduledAt is not after the current time; a launch error for one
\* due campaign leaves every campaign as it was (the failing one keeps its
\* status) and the tick goes on to the next campaign of its list.
C37_SchedulerLaunchesDueCampaignsOnly ==
  [][\A c \in DOMAIN campaigns :
       SchedulerTurn(c) =>
         IF LaunchError(campaigns[c]) = "none"
           THEN /\ campaigns[c].status = "SCHEDULED"
                /\ campaigns[c].scheduledAt # NoTimestamp
                /\ campaigns[c].scheduledAt <= now
           ELSE /\ campaigns' = campaigns
                /\ tpos' = IF tpos = Len(scheduledCampaigns) THEN 0 ELSE tpos + 1]_vars


\* ---------------------------------------------------------------- C38
\* The contacts a criteria tree holds on, whatever their status and consent
Asked(criteria) ==
  {id \in DOMAIN contactStore : TreeHolds(contactStore[id], criteria)}

\* C38: segment and inline-criteria targeting never selects a contact that
\* is not ACTIVE or not opted in, whatever the criteria tree says: the
\* contacts a launch goes on with and the rows it creates are ACTIVE opted-in
\* contacts, and the count stored with a segment's criteria is the number of
\* ACTIVE opted-in contacts the criteria hold on.
C38_TargetsAreActiveAndOptedIn ==
  /\ \A i \in DOMAIN lcontacts[AdminLauncher] :
       lcontacts[AdminLauncher][i] \in ActiveOptedIn
  /\ \A r \in Rows : messages[r].contactId \in ActiveOptedIn
  /\ (sres.op = "update" /\ sres.status = 200) =>
       sres.count = Cardinality(Asked(sreq) \cap ActiveOptedIn)

\* A launch created its rows from a tree with an OR branch on status
\* BLOCKED and on optedIn false, which holds on a BLOCKED and on an
\* opted-out contact of the table: none of them has a row.
C38_Witness ==
  /\ TargetCriteria(campaign) = WideningTree
  /\ Asked(WideningTree) \ ActiveOptedIn # {}
  /\ Asked(WideningTree) \cap ActiveOptedIn # {}
  /\ Rows # {}
  /\ {messages[r].contactId : r \in Rows} = Asked(WideningTree) \cap ActiveOptedIn


\* ---------------------------------------------------------------- C39
\* The contacts that were BLOCKED before any inbound message
BlockedContacts ==
  {id \in DOMAIN SeedContacts : SeedContacts[id].status = "BLOCKED"}

\* C39: a contact whose status is BLOCKED never becomes ACTIVE through
\* inbound messages alone: after every sequence of inbound texts its status
\* is not ACTIVE, and target resolution never selects it (no launch goes on
\* with it and no message row is created for it).
C39_BlockedStaysOutOfTargeting ==
  \A id \in BlockedContacts :
    /\ contactStore[id].status # "ACTIVE"
    /\ \A i \in DOMAIN lcontacts[AdminLauncher] : lcontacts[AdminLauncher][i] # id
    /\ \A r \in Rows : messages[r].contactId # id


\* ---------------------------------------------------------------- C40
\* C40: in the queue path each recipient of a launched campaign receives at
\* most one gateway send per launch: a job that is retried after failing in
\* its statistics update does not send its batch again and does not add the
\* batch's results to the campaign's counters a second time.
C40_RetriedJobSendsAndCountsOnce ==
  \A j \in DOMAIN jobs : jobs[j].sends <= 1 /\ jobs[j].counted <= 1

====
